---- MODULE Spec2Model ----
(***************************************************************************)
(* A model of the YAML tokenizer of yaml-rust (src/scanner.rs).            *)
(*                                                                         *)
(* A character is a one-character string; NUL stands for '\0', the value   *)
(* lookahead() materialises past the end of the source.  The scanner is a  *)
(* record with the fields of struct Scanner; `fail` holds the description  *)
(* of the ScanError a ScanResult in flight carries ("" for Ok).            *)
(***************************************************************************)
EXTENDS Integers, Sequences, FiniteSets, TLC

VARIABLES sc, pc, out, ret, nones, src, em, doc, start, dumps

vars == <<sc, pc, out, ret, nones, src, em, doc, start, dumps>>

\* The variables of the emitter and of its caller.
emvars == <<em, doc, start, dumps>>

\* ------------------------------------------------------------------------
\* Bounds of the model
\* ------------------------------------------------------------------------
MaxChunks == 4
MaxNones == 2

\* ------------------------------------------------------------------------
\* Characters
\* ------------------------------------------------------------------------
NUL == "NUL"
LF == "\n"
CR == "\r"
TAB == "\t"
SP == " "
\* The grave accent, written by name.
BACKTICK == "GRAVE"

Digits == {"0", "1", "2", "3", "4", "5", "6", "7", "8", "9"}
LowerHex == {"a", "b", "c", "d", "e", "f"}
UpperHex == {"A", "B", "C", "D", "E", "F"}
Letters == {"a", "b", "c", "d", "e", "f", "g", "h", "i", "j", "k", "l", "m",
            "n", "o", "p", "q", "r", "s", "t", "u", "v", "w", "x", "y", "z",
            "A", "B", "C", "D", "E", "F", "G", "H", "I", "J", "K", "L", "M",
            "N", "O", "P", "Q", "R", "S", "T", "U", "V", "W", "X", "Y", "Z"}

is_z(c) == c = NUL

is_break(c) == c = LF \/ c = CR

is_breakz(c) == is_break(c) \/ is_z(c)

is_blank(c) == c = SP \/ c = TAB

is_blankz(c) == is_blank(c) \/ is_breakz(c)

is_digit(c) == c \in Digits

is_alpha(c) == c \in Digits \cup Letters \cup {"_", "-"}

is_hex(c) == c \in Digits \cup LowerHex \cup UpperHex

is_flow(c) == c \in {",", "[", "]", "{", "}"}

\* ------------------------------------------------------------------------
\* Markers, tokens, simple keys
\* ------------------------------------------------------------------------
Marker(index, line, col) == [index |-> index, line |-> line, col |-> col]

\* Token(mark, TokenType): style, handle and text are empty for the token
\* types that carry none.
Token(mark, type) ==
    [mark |-> mark, type |-> type, style |-> "", handle |-> << >>, text |-> << >>]

ScalarToken(mark, style, text) ==
    [mark |-> mark, type |-> "Scalar", style |-> style, handle |-> << >>, text |-> text]

TextToken(mark, type, text) ==
    [mark |-> mark, type |-> type, style |-> "", handle |-> << >>, text |-> text]

\* Tag(handle, suffix) and TagDirective(handle, prefix)
TagToken(mark, type, handle, text) ==
    [mark |-> mark, type |-> type, style |-> "", handle |-> handle, text |-> text]

SimpleKeyNew(mark) ==
    [possible |-> FALSE, required |-> FALSE, token_number |-> 0, mark |-> mark]

\* ------------------------------------------------------------------------
\* Scanner::new
\* ------------------------------------------------------------------------
ScannerNew(rdr, with_comments) ==
    [rdr |-> rdr,
     buffer |-> << >>,
     mark |-> Marker(0, 1, 0),
     tokens |-> << >>,
     error |-> "",
     with_comments |-> with_comments,
     stream_start_produced |-> FALSE,
     stream_end_produced |-> FALSE,
     adjacent_value_allowed_at |-> 0,
     simple_key_allowed |-> TRUE,
     simple_keys |-> << >>,
     indent |-> -1,
     indents |-> << >>,
     flow_level |-> 0,
     tokens_parsed |-> 0,
     token_available |-> FALSE,
     fail |-> ""]

Failed(s) == s.fail # ""

\* A panic unwinds through every caller: fail keeps its message.
Panics == {"panic: insert_token", "panic: skip", "panic: index",
           "panic: unreachable"}

IsPanic(s) == s.fail \in Panics

\* Err(ScanError::new(mark, info)) returned from the current function.
ScanError(s, info) == IF IsPanic(s) THEN s ELSE [s EXCEPT !.fail = info]

\* ------------------------------------------------------------------------
\* Sequencing
\* ------------------------------------------------------------------------
\* let v = ...; the rest of the function reads the value under one name.
\* The value is computed once, when its singleton set is enumerated.
With(v, rest(_)) == CHOOSE r \in {rest(x) : x \in {v}} : TRUE

\* The `?` operator on a ScanResult: an Err is returned at once, otherwise
\* the function goes on.
Try(s, rest(_)) == With(s, LAMBDA s1 : IF Failed(s1) THEN s1 ELSE rest(s1))

\* ------------------------------------------------------------------------
\* Character access
\* ------------------------------------------------------------------------
Nuls(n) == [i \in 1..n |-> NUL]

Min(a, b) == IF a <= b THEN a ELSE b

\* for _ in 0..(count - self.buffer.len()) { push_back(rdr.next().unwrap_or('\0')) }
\* with `got` characters still in the source.
fill(s, need, got) ==
    [s EXCEPT !.buffer = @ \o SubSeq(s.rdr, 1, got) \o Nuls(need - got),
              !.rdr = SubSeq(s.rdr, got + 1, Len(s.rdr))]

\* lookahead that reads one character however many are asked for.
lookahead_reads_one(s, count) ==
    IF Len(s.buffer) >= count
    THEN s
    ELSE fill(s, 1, Min(1, Len(s.rdr)))

lookahead(s, count) ==
    IF Len(s.buffer) >= count
    THEN s
    ELSE fill(s, count - Len(s.buffer), Min(count - Len(s.buffer), Len(s.rdr)))

\* What an index past the end of the buffer yields: no character, the
\* build panics there.
NoChar == "NOCHAR"

\* self.buffer[i]
buf(s, i) == IF i < Len(s.buffer) THEN s.buffer[i + 1] ELSE NoChar

ch(s) == buf(s, 0)

\* self.buffer.pop_front().unwrap() panics on an empty buffer.
skip(s) ==
    IF s.buffer = << >>
    THEN [s EXCEPT !.fail = "panic: skip"]
    ELSE [s EXCEPT !.buffer = Tail(@),
                   !.mark = IF s.buffer[1] = LF
                            THEN Marker(@.index + 1, @.line + 1, 0)
                            ELSE Marker(@.index + 1, @.line, @.col + 1)]

\* self.buffer[0] == '\r' && self.buffer[1] == '\n' indexes past the end
\* of the buffer: buffer[0] is not there, or it is '\r' and buffer[1] is
\* not there.
BreakIndexPanics(s) ==
    s.buffer = << >> \/ (s.buffer[1] = CR /\ Len(s.buffer) < 2)

skip_line(s) ==
    IF BreakIndexPanics(s)
    THEN [s EXCEPT !.fail = "panic: index"]
    ELSE IF buf(s, 0) = CR /\ buf(s, 1) = LF
    THEN skip(skip(s))
    ELSE IF is_break(buf(s, 0)) THEN skip(s) ELSE s

\* read_break(&mut str): the result carries the scanner and the string.
read_break(s, str) ==
    [s |-> IF BreakIndexPanics(s)
           THEN [s EXCEPT !.fail = "panic: index"]
           ELSE IF buf(s, 0) = CR /\ buf(s, 1) = LF THEN skip(skip(s))
           ELSE IF is_break(buf(s, 0)) THEN skip(s)
           ELSE [s EXCEPT !.fail = "panic: unreachable"],
     str |-> Append(str, LF)]

\* ------------------------------------------------------------------------
\* Token queue
\* ------------------------------------------------------------------------
InsertAt(q, pos, tok) ==
    SubSeq(q, 1, pos) \o <<tok>> \o SubSeq(q, pos + 1, Len(q))

\* assert!(pos <= old_len); a failed assertion (or a usize underflow in the
\* caller's subtraction) is a panic, recorded in fail.
insert_token(s, pos, tok) ==
    IF pos < 0 \/ pos > Len(s.tokens)
    THEN [s EXCEPT !.fail = "panic: insert_token"]
    ELSE [s EXCEPT !.tokens = InsertAt(@, pos, tok)]

push_back(s, tok) == [s EXCEPT !.tokens = Append(@, tok)]

allow_simple_key(s) == [s EXCEPT !.simple_key_allowed = TRUE]

disallow_simple_key(s) == [s EXCEPT !.simple_key_allowed = FALSE]

\* ------------------------------------------------------------------------
\* Simple keys
\* ------------------------------------------------------------------------
SetLast(seq, v) == [seq EXCEPT ![Len(seq)] = v]

Last(seq) == seq[Len(seq)]

Front(seq) == SubSeq(seq, 1, Len(seq) - 1)

remove_simple_key(s) ==
    IF Last(s.simple_keys).possible /\ Last(s.simple_keys).required
    THEN ScanError(s, "simple key expected")
    ELSE [s EXCEPT !.simple_keys = SetLast(@, [Last(@) EXCEPT !.possible = FALSE])]

\* save_simple_key that requires the key in block context.
save_simple_key_required_in_block(s) ==
    IF s.simple_key_allowed
    THEN Try(remove_simple_key(s), LAMBDA r :
             [r EXCEPT !.simple_keys =
                 Append(Front(@),
                        [possible |-> TRUE,
                         required |-> s.flow_level = 0 /\ s.indent = s.mark.col,
                         token_number |-> s.tokens_parsed + Len(s.tokens),
                         mark |-> s.mark])])
    ELSE s

\* save_simple_key that numbers the key by its place in the queue alone.
save_simple_key_numbers_by_queue(s) ==
    IF s.simple_key_allowed
    THEN Try(remove_simple_key(s), LAMBDA r :
             [r EXCEPT !.simple_keys =
                 Append(Front(@),
                        [possible |-> TRUE,
                         required |-> s.flow_level > 0 /\ s.indent = s.mark.col,
                         token_number |-> Len(s.tokens),
                         mark |-> s.mark])])
    ELSE s

save_simple_key(s) ==
    IF s.simple_key_allowed
    THEN Try(remove_simple_key(s), LAMBDA r :
             [r EXCEPT !.simple_keys =
                 Append(Front(@),
                        [possible |-> TRUE,
                         required |-> s.flow_level > 0 /\ s.indent = s.mark.col,
                         token_number |-> s.tokens_parsed + Len(s.tokens),
                         mark |-> s.mark])])
    ELSE s

\* IsStale that ages a key out one character early.
IsStale_one_early(s, sk) ==
    sk.possible
    /\ (sk.mark.line < s.mark.line \/ sk.mark.index + 1024 <= s.mark.index)

\* IsStale that finds no key stale.
IsStale_never(s, sk) == FALSE

IsStale(s, sk) ==
    sk.possible
    /\ (sk.mark.line < s.mark.line \/ sk.mark.index + 1024 < s.mark.index)

\* The slots at which the loop of stale_simple_keys returns its error.
StaleRequired(s) ==
    {i \in 1..Len(s.simple_keys) :
        IsStale(s, s.simple_keys[i]) /\ s.simple_keys[i].required}

\* The slots before `stop` that are stale are no longer possible.
clear_stale(s, stop) ==
    [s EXCEPT !.simple_keys =
        [i \in 1..Len(s.simple_keys) |->
            IF i < stop /\ IsStale(s, s.simple_keys[i])
            THEN [s.simple_keys[i] EXCEPT !.possible = FALSE]
            ELSE s.simple_keys[i]]]

\* The loop visits the slots in order and returns at the first stale slot
\* that is required; the slots before it have already been cleared.
stale_simple_keys(s) ==
    With(StaleRequired(s), LAMBDA bad :
        IF bad = {}
        THEN clear_stale(s, Len(s.simple_keys) + 1)
        ELSE ScanError(clear_stale(s, CHOOSE i \in bad : \A j \in bad : i <= j),
                       "simple key expect ':'"))

\* ------------------------------------------------------------------------
\* Indentation
\* ------------------------------------------------------------------------
\* self.indents.push(self.indent); self.indent = col;
\* The push of roll_indent with the new indent pushed instead of the old.
push_indent_pushes_new(s, col) == [s EXCEPT !.indents = Append(@, col), !.indent = col]

push_indent(s, col) == [s EXCEPT !.indents = Append(@, s.indent), !.indent = col]

\* roll_indent that also opens a block at the column of the current one.
roll_indent_at_same_column(s, col, number, tok, mark) ==
    IF s.flow_level > 0
    THEN s
    ELSE IF s.indent <= col
         THEN IF number >= 0
              THEN insert_token(push_indent(s, col), number - s.tokens_parsed,
                                Token(mark, tok))
              ELSE push_back(push_indent(s, col), Token(mark, tok))
         ELSE s

\* number is -1 for None.
roll_indent(s, col, number, tok, mark) ==
    IF s.flow_level > 0
    THEN s
    ELSE IF s.indent < col
         THEN IF number >= 0
              THEN insert_token(push_indent(s, col), number - s.tokens_parsed,
                                Token(mark, tok))
              ELSE push_back(push_indent(s, col), Token(mark, tok))
         ELSE s

RECURSIVE unroll_loop(_, _)
unroll_loop(s, col) ==
    IF s.indent > col
    THEN With([s EXCEPT !.tokens = Append(@, Token(s.mark, "BlockEnd")),
                        !.indent = Last(s.indents),
                        !.indents = Front(@)], LAMBDA s1 : unroll_loop(s1, col))
    ELSE s

\* unroll_indent that closes one block where the code loops.
unroll_indent_once(s, col) ==
    IF s.flow_level > 0 \/ s.indent <= col
    THEN s
    ELSE [s EXCEPT !.tokens = Append(@, Token(s.mark, "BlockEnd")),
                   !.indent = Last(s.indents),
                   !.indents = Front(@)]

unroll_indent(s, col) ==
    IF s.flow_level > 0 THEN s ELSE unroll_loop(s, col)

\* ------------------------------------------------------------------------
\* Whitespace and comments between tokens
\* ------------------------------------------------------------------------
RECURSIVE skip_to_breakz(_)
\* while !is_breakz(self.ch()) { self.skip(); self.lookahead(1); }
skip_to_breakz(s) ==
    IF is_breakz(ch(s))
    THEN s
    ELSE With(lookahead(skip(s), 1), LAMBDA s1 : skip_to_breakz(s1))

\* if self.flow_level == 0 { self.allow_simple_key(); }
allow_simple_key_in_block(s) ==
    IF s.flow_level = 0 THEN allow_simple_key(s) ELSE s

\* One turn of the loop of skip_to_next_token on the character c: done
\* tells that the loop was left.
skip_one(s, c) ==
    IF c = SP
    THEN [s |-> skip(s), done |-> FALSE]
    ELSE IF c = TAB /\ (s.flow_level > 0 \/ ~s.simple_key_allowed)
    THEN [s |-> skip(s), done |-> FALSE]
    ELSE IF c = LF \/ c = CR
    THEN [s |-> allow_simple_key_in_block(skip_line(lookahead(s, 2))), done |-> FALSE]
    ELSE IF c = "#" /\ ~s.with_comments
    THEN [s |-> skip_to_breakz(s), done |-> FALSE]
    ELSE [s |-> s, done |-> TRUE]

RECURSIVE skip_to_next_token(_)
skip_to_next_token(s0) ==
    With(lookahead(s0, 1), LAMBDA s :
    With(skip_one(s, ch(s)), LAMBDA r :
        IF r.done THEN r.s ELSE skip_to_next_token(r.s)))

\* ------------------------------------------------------------------------
\* Stream start and end, document indicators
\* ------------------------------------------------------------------------
fetch_stream_start(s) ==
    [s EXCEPT !.indent = -1,
              !.stream_start_produced = TRUE,
              !.simple_key_allowed = TRUE,
              !.tokens = Append(@, Token(s.mark, "StreamStart")),
              !.simple_keys = Append(@, SimpleKeyNew(Marker(0, 0, 0)))]

\* if self.mark.col != 0 { self.mark.col = 0; self.mark.line += 1; }
to_line_start(s) ==
    IF s.mark.col # 0
    THEN [s EXCEPT !.mark = Marker(@.index, @.line + 1, 0)]
    ELSE s

\* fetch_stream_end that queues no StreamEnd.
fetch_stream_end_queues_nothing(s) ==
    Try(remove_simple_key(unroll_indent(to_line_start(s), -1)), LAMBDA s2 :
        disallow_simple_key(s2))

fetch_stream_end(s) ==
    Try(remove_simple_key(unroll_indent(to_line_start(s), -1)), LAMBDA s2 :
        push_back(disallow_simple_key(s2), Token(s2.mark, "StreamEnd")))

\* fetch_document_indicator that leaves the open blocks open.
fetch_document_indicator_keeps_blocks(s, t) ==
    Try(remove_simple_key(s), LAMBDA s1 :
        push_back(skip(skip(skip(disallow_simple_key(s1)))), Token(s1.mark, t)))

fetch_document_indicator(s, t) ==
    Try(remove_simple_key(unroll_indent(s, -1)), LAMBDA s1 :
        push_back(skip(skip(skip(disallow_simple_key(s1)))), Token(s1.mark, t)))

\* ------------------------------------------------------------------------
\* Flow collections
\* ------------------------------------------------------------------------
MaxFlowLevel == 255

\* increase_flow_level that opens the simple-key slot and leaves the level.
increase_flow_level_keeps_level(s) ==
    [s EXCEPT !.simple_keys = Append(@, SimpleKeyNew(Marker(0, 0, 0)))]

\* increase_flow_level with the wrapping addition of a u8.
increase_flow_level_wraps(s) ==
    [s EXCEPT !.simple_keys = Append(@, SimpleKeyNew(Marker(0, 0, 0))),
              !.flow_level = (@ + 1) % (MaxFlowLevel + 1)]

increase_flow_level(s) ==
    IF s.flow_level + 1 > MaxFlowLevel
    THEN ScanError([s EXCEPT !.simple_keys = Append(@, SimpleKeyNew(Marker(0, 0, 0)))],
                   "recursion limit exceeded")
    ELSE [s EXCEPT !.simple_keys = Append(@, SimpleKeyNew(Marker(0, 0, 0))),
                   !.flow_level = @ + 1]

\* decrease_flow_level that leaves the simple-key slot of the level.
decrease_flow_level_keeps_slot(s) ==
    IF s.flow_level > 0
    THEN [s EXCEPT !.flow_level = @ - 1]
    ELSE s

decrease_flow_level(s) ==
    IF s.flow_level > 0
    THEN [s EXCEPT !.flow_level = @ - 1, !.simple_keys = Front(@)]
    ELSE s

fetch_flow_collection_start(s, tok) ==
    Try(save_simple_key(s), LAMBDA s1 :
    Try(increase_flow_level(s1), LAMBDA s2 :
        push_back(skip(allow_simple_key(s2)), Token(s2.mark, tok))))

fetch_flow_collection_end(s, tok) ==
    Try(remove_simple_key(s), LAMBDA s1 :
        push_back(skip(disallow_simple_key(decrease_flow_level(s1))),
                  Token(s1.mark, tok)))

fetch_flow_entry(s) ==
    Try(remove_simple_key(s), LAMBDA s1 :
        push_back(skip(allow_simple_key(s1)), Token(s1.mark, "FlowEntry")))

\* ------------------------------------------------------------------------
\* Block entries, keys and values
\* ------------------------------------------------------------------------
\* fetch_block_entry that opens the block sequence before it looks at
\* simple_key_allowed.
fetch_block_entry_rolls_first(s) ==
    IF s.flow_level = 0
    THEN IF ~s.simple_key_allowed
         THEN ScanError(roll_indent(s, s.mark.col, -1, "BlockSequenceStart", s.mark),
                        "block sequence entries are not allowed in this context")
         ELSE Try(remove_simple_key(
                      roll_indent(s, s.mark.col, -1, "BlockSequenceStart", s.mark)),
                  LAMBDA s2 :
                      push_back(skip(allow_simple_key(s2)), Token(s2.mark, "BlockEntry")))
    ELSE ScanError(s, "\"-\" is only valid inside a block")

fetch_block_entry(s) ==
    IF s.flow_level = 0
    THEN IF ~s.simple_key_allowed
         THEN ScanError(s, "block sequence entries are not allowed in this context")
         ELSE Try(remove_simple_key(
                      roll_indent(s, s.mark.col, -1, "BlockSequenceStart", s.mark)),
                  LAMBDA s2 :
                      push_back(skip(allow_simple_key(s2)), Token(s2.mark, "BlockEntry")))
    ELSE ScanError(s, "\"-\" is only valid inside a block")

\* if self.flow_level == 0 { self.allow_simple_key(); } else { self.disallow_simple_key(); }
simple_key_allowed_in_block(s) ==
    IF s.flow_level = 0 THEN allow_simple_key(s) ELSE disallow_simple_key(s)

\* if self.flow_level == 0 { ...; self.roll_indent(col, None, BlockMappingStart, mark); }
roll_indent_in_block(s, mark) ==
    IF s.flow_level = 0
    THEN roll_indent(s, mark.col, -1, "BlockMappingStart", mark)
    ELSE s

fetch_key(s) ==
    IF s.flow_level = 0 /\ ~s.simple_key_allowed
    THEN ScanError(s, "mapping keys are not allowed in this context")
    ELSE Try(remove_simple_key(roll_indent_in_block(s, s.mark)), LAMBDA s2 :
             push_back(skip(simple_key_allowed_in_block(s2)), Token(s.mark, "Key")))

\* self.simple_keys.last_mut().unwrap().possible = false;
clear_last_key(s) ==
    [s EXCEPT !.simple_keys = SetLast(@, [Last(@) EXCEPT !.possible = FALSE])]

\* insert_key that queues the Value and forgets the Key.
insert_key_forgets_key(s, sk, start_mark) ==
    Try(roll_indent(s, sk.mark.col, sk.token_number, "BlockMappingStart", start_mark),
        LAMBDA s2 :
        push_back(skip(disallow_simple_key(clear_last_key(s2))),
                  Token(start_mark, "Value")))

\* insert_key that marks the Key where the ':' stands.
insert_key_marked_at_value(s, sk, start_mark) ==
    Try(insert_token(s, sk.token_number - s.tokens_parsed, Token(start_mark, "Key")),
        LAMBDA s1 :
    Try(roll_indent(s1, sk.mark.col, sk.token_number, "BlockMappingStart", start_mark),
        LAMBDA s2 :
        push_back(skip(disallow_simple_key(clear_last_key(s2))),
                  Token(start_mark, "Value"))))

\* insert_key that queues the Key behind the tokens of the key.
insert_key_at_back(s, sk, start_mark) ==
    Try(roll_indent(push_back(s, Token(sk.mark, "Key")),
                    sk.mark.col, sk.token_number, "BlockMappingStart", start_mark),
        LAMBDA s2 :
        push_back(skip(disallow_simple_key(clear_last_key(s2))),
                  Token(start_mark, "Value")))

\* The branch of fetch_value taken when the last slot holds a possible
\* simple key sk.
insert_key(s, sk, start_mark) ==
    Try(insert_token(s, sk.token_number - s.tokens_parsed, Token(sk.mark, "Key")),
        LAMBDA s1 :
    Try(roll_indent(s1, sk.mark.col, sk.token_number, "BlockMappingStart", start_mark),
        LAMBDA s2 :
        push_back(skip(disallow_simple_key(clear_last_key(s2))),
                  Token(start_mark, "Value"))))

fetch_value(s) ==
    IF Last(s.simple_keys).possible
    THEN insert_key(s, Last(s.simple_keys), s.mark)
    ELSE IF s.flow_level = 0 /\ ~s.simple_key_allowed
         THEN ScanError(s, "mapping values are not allowed in this context")
         ELSE push_back(skip(simple_key_allowed_in_block(roll_indent_in_block(s, s.mark))),
                        Token(s.mark, "Value"))

\* ------------------------------------------------------------------------
\* Anchors and aliases
\* ------------------------------------------------------------------------
RECURSIVE scan_alpha(_, _)
\* while is_alpha(self.ch()) { string.push(self.ch()); self.skip(); self.lookahead(1); }
scan_alpha(s, str) ==
    IF is_alpha(ch(s))
    THEN With(lookahead(skip(s), 1), LAMBDA s1 :
         With(Append(str, ch(s)), LAMBDA str1 : scan_alpha(s1, str1)))
    ELSE [s |-> s, str |-> str]

\* The characters that may follow an anchor or alias name.
EndsAnchor(c) ==
    is_blankz(c) \/ c \in {"?", ":", ",", "]", "}", "%", "@", BACKTICK}

scan_anchor(s, alias) ==
    With(scan_alpha(lookahead(skip(s), 1), << >>), LAMBDA r :
        IF r.str = << >> \/ ~EndsAnchor(ch(r.s))
        THEN [s |-> ScanError(r.s, "while scanning an anchor or alias, did not find expected alphabetic or numeric character"),
              tok |-> Token(s.mark, "")]
        ELSE [s |-> r.s,
              tok |-> TextToken(s.mark, IF alias THEN "Alias" ELSE "Anchor", r.str)])

\* let tok = self.scan_...()?; self.tokens.push_back(tok);
push_scanned(scanned) ==
    With(scanned, LAMBDA r : IF Failed(r.s) THEN r.s ELSE push_back(r.s, r.tok))

fetch_anchor(s, alias) ==
    Try(save_simple_key(s), LAMBDA s1 :
        push_scanned(scan_anchor(disallow_simple_key(s1), alias)))

\* ------------------------------------------------------------------------
\* Comments
\* ------------------------------------------------------------------------
RECURSIVE comment_loop(_, _, _)
comment_loop(s, comment, comment_started) ==
    IF is_breakz(ch(s))
    THEN [s |-> s, str |-> comment]
    ELSE With(lookahead(skip(s), 1), LAMBDA s1 :
             IF ~comment_started /\ (ch(s) = "#" \/ ch(s) = SP)
             THEN comment_loop(s1, comment, comment_started)
             ELSE With(Append(comment, ch(s)), LAMBDA c1 : comment_loop(s1, c1, TRUE)))

\* fetch_comment that takes the comment as started at the first character.
fetch_comment_keeps_leading(s) ==
    With(comment_loop(lookahead(skip(s), 1), << >>, TRUE), LAMBDA r :
        push_back(r.s, TextToken(s.mark, "Comment", r.str)))

fetch_comment(s) ==
    With(comment_loop(lookahead(skip(s), 1), << >>, FALSE), LAMBDA r :
        push_back(r.s, TextToken(s.mark, "Comment", r.str)))

\* ------------------------------------------------------------------------
\* Plain scalars
\* ------------------------------------------------------------------------
\* The local variables of scan_plain_scalar and scan_flow_scalar.
ScalarLocals ==
    [string |-> << >>, leading_break |-> << >>, trailing_breaks |-> << >>,
     whitespaces |-> << >>, leading_blanks |-> FALSE]

IsDocumentIndicator(s) ==
    /\ s.mark.col = 0
    /\ \/ (buf(s, 0) = "-" /\ buf(s, 1) = "-" /\ buf(s, 2) = "-")
       \/ (buf(s, 0) = "." /\ buf(s, 1) = "." /\ buf(s, 2) = ".")
    /\ is_blankz(buf(s, 3))

\* fold_breaks that keeps the first line break of a run.
fold_breaks_keeps_first(l) ==
    [l EXCEPT !.string = @ \o l.leading_break \o l.trailing_breaks,
              !.trailing_breaks = << >>,
              !.leading_break = << >>]

\* Join the whitespaces or fold the line breaks collected before the next
\* content character (the branch written twice in the source).
fold_breaks(l) ==
    IF l.leading_break = << >>
    THEN [l EXCEPT !.string = @ \o l.leading_break \o l.trailing_breaks,
                   !.trailing_breaks = << >>,
                   !.leading_break = << >>]
    ELSE [l EXCEPT !.string = IF l.trailing_breaks = << >>
                              THEN Append(@, SP)
                              ELSE @ \o l.trailing_breaks,
                   !.trailing_breaks = << >>,
                   !.leading_break = << >>]

plain_join(l) ==
    IF l.leading_blanks
    THEN [fold_breaks(l) EXCEPT !.leading_blanks = FALSE]
    ELSE IF l.whitespaces # << >>
         THEN [l EXCEPT !.string = @ \o l.whitespaces, !.whitespaces = << >>]
         ELSE l

plain_ends_at_in_block_too(s) ==
    \/ (ch(s) = ":" /\ (is_blankz(buf(s, 1)) \/ (s.flow_level > 0 /\ is_flow(buf(s, 1)))))
    \/ is_flow(ch(s))

plain_ends_at(s) ==
    \/ (ch(s) = ":" /\ (is_blankz(buf(s, 1)) \/ (s.flow_level > 0 /\ is_flow(buf(s, 1)))))
    \/ (is_flow(ch(s)) /\ s.flow_level > 0)

RECURSIVE plain_chars(_, _)
\* while !is_blankz(self.ch()) { ... }
plain_chars(s, l) ==
    IF is_blankz(ch(s)) \/ plain_ends_at(s)
    THEN [s |-> s, l |-> l]
    ELSE With(lookahead(skip(s), 2), LAMBDA s1 :
         With([plain_join(l) EXCEPT !.string = Append(@, ch(s))], LAMBDA l1 :
             plain_chars(s1, l1)))

\* A line break among the blanks: the first one is kept in leading_break,
\* the later ones in trailing_breaks.
take_break(l, s, indent, again(_, _, _)) ==
    IF l.leading_blanks
    THEN With(read_break(lookahead(s, 2), l.trailing_breaks), LAMBDA r :
         With(lookahead(r.s, 1), LAMBDA s1 :
         With([l EXCEPT !.trailing_breaks = r.str], LAMBDA l1 :
             again(s1, l1, indent))))
    ELSE With(read_break(lookahead(s, 2), l.leading_break), LAMBDA r :
         With(lookahead(r.s, 1), LAMBDA s1 :
         With([l EXCEPT !.whitespaces = << >>,
                        !.leading_break = r.str,
                        !.leading_blanks = TRUE], LAMBDA l1 :
             again(s1, l1, indent))))

\* A blank among the blanks: kept in whitespaces until a line break is seen.
take_blank(l, c) ==
    IF l.leading_blanks THEN l ELSE [l EXCEPT !.whitespaces = Append(@, c)]

RECURSIVE plain_blanks(_, _, _)
\* while is_blank(self.ch()) || is_break(self.ch()) { ... }
plain_blanks(s, l, indent) ==
    IF is_blank(ch(s))
    THEN IF l.leading_blanks /\ s.mark.col < indent /\ ch(s) = TAB
         THEN [s |-> ScanError(s, "while scanning a plain scalar, found a tab"), l |-> l]
         ELSE With(lookahead(skip(s), 1), LAMBDA s1 :
              With(take_blank(l, ch(s)), LAMBDA l1 : plain_blanks(s1, l1, indent)))
    ELSE IF is_break(ch(s))
         THEN take_break(l, s, indent, plain_blanks)
         ELSE [s |-> s, l |-> l]

RECURSIVE plain_loop(_, _, _)
plain_loop(s0, l, indent) ==
    With(lookahead(s0, 4), LAMBDA s :
        IF IsDocumentIndicator(s) \/ ch(s) = "#"
        THEN [s |-> s, l |-> l]
        ELSE With(plain_chars(s, l), LAMBDA r1 :
            IF ~(is_blank(ch(r1.s)) \/ is_break(ch(r1.s)))
            THEN r1
            ELSE With(lookahead(r1.s, 1), LAMBDA s1 :
                 With(plain_blanks(s1, r1.l, indent), LAMBDA r2 :
                IF Failed(r2.s) THEN r2
                ELSE IF r2.s.flow_level = 0 /\ r2.s.mark.col < indent
                     THEN r2
                     ELSE plain_loop(r2.s, r2.l, indent)))))

scan_plain_scalar(s) ==
    With(plain_loop(s, ScalarLocals, s.indent + 1), LAMBDA r :
        IF Failed(r.s)
        THEN [s |-> r.s, tok |-> Token(s.mark, "")]
        ELSE [s |-> IF r.l.leading_blanks THEN allow_simple_key(r.s) ELSE r.s,
              tok |-> ScalarToken(s.mark, "Plain", r.l.string)])

fetch_plain_scalar(s) ==
    Try(save_simple_key(s), LAMBDA s1 :
        push_scanned(scan_plain_scalar(disallow_simple_key(s1))))

\* ------------------------------------------------------------------------
\* Quoted scalars
\* ------------------------------------------------------------------------
DigitSeq == <<"0", "1", "2", "3", "4", "5", "6", "7", "8", "9">>
LowerHexSeq == <<"a", "b", "c", "d", "e", "f">>
UpperHexSeq == <<"A", "B", "C", "D", "E", "F">>

IndexOf(seq, c) == CHOOSE i \in 1..Len(seq) : seq[i] = c

as_hex(c) ==
    IF c \in Digits THEN IndexOf(DigitSeq, c) - 1
    ELSE IF c \in LowerHex THEN IndexOf(LowerHexSeq, c) - 1 + 10
    ELSE IndexOf(UpperHexSeq, c) - 1 + 10

\* A u32 is kept as its two 16-bit halves [hi, lo].
Half == 65536

U32Zero == [hi |-> 0, lo |-> 0]

\* (v << bits) + d for d below 2^bits: the bits shifted out at the top are lost.
ShlAdd(v, bits, d) ==
    [hi |-> (v.hi * (2 ^ bits) + ((v.lo * (2 ^ bits) + d) \div Half)) % Half,
     lo |-> (v.lo * (2 ^ bits) + d) % Half]

\* char::from_u32 that takes the surrogates for characters.
IsScalarValue_admits_surrogates(v) == v.hi <= 16

\* char::from_u32: None for a surrogate or a value above 0x10FFFF.
IsScalarValue(v) ==
    \/ (v.hi = 0 /\ (v.lo < 55296 \/ v.lo >= 57344))
    \/ (1 <= v.hi /\ v.hi <= 16)

CodePoint(v) == v.hi * Half + v.lo

\* The character with code point v: the characters the model writes as
\* themselves keep their spelling, every other one is named by its code.
CharFromU32(v) ==
    IF v = 0 THEN NUL
    ELSE IF v = 9 THEN TAB
    ELSE IF v = 10 THEN LF
    ELSE IF v = 13 THEN CR
    ELSE IF v = 32 THEN SP
    ELSE IF v = 34 THEN "\""
    ELSE IF v = 39 THEN "'"
    ELSE IF v = 92 THEN "\\"
    ELSE IF 48 <= v /\ v <= 57 THEN DigitSeq[v - 47]
    ELSE IF 97 <= v /\ v <= 102 THEN LowerHexSeq[v - 96]
    ELSE IF 65 <= v /\ v <= 70 THEN UpperHexSeq[v - 64]
    ELSE "U+" \o ToString(v)

\* The single-character escapes of a double-quoted scalar: the code point
\* pushed for the character after the backslash, -1 when there is none.
EscapeCode(e) ==
    IF e = "0" THEN 0
    ELSE IF e = "a" THEN 7
    ELSE IF e = "b" THEN 8
    ELSE IF e = "t" \/ e = TAB THEN 9
    ELSE IF e = "n" THEN 10
    ELSE IF e = "v" THEN 11
    ELSE IF e = "f" THEN 12
    ELSE IF e = "r" THEN 13
    ELSE IF e = "e" THEN 27
    ELSE IF e = SP THEN 32
    ELSE IF e = "\"" THEN 34
    ELSE IF e = "'" THEN 39
    ELSE IF e = "\\" THEN 92
    ELSE IF e = "N" THEN 133
    ELSE IF e = "_" THEN 160
    ELSE IF e = "L" THEN 8232
    ELSE IF e = "P" THEN 8233
    ELSE -1

CodeLength(e) ==
    IF e = "x" THEN 2 ELSE IF e = "u" THEN 4 ELSE IF e = "U" THEN 8 ELSE 0

RECURSIVE hex_value(_, _, _, _)
\* for i in 0..code_length { value = (value << 4) + as_hex(self.buffer[i]) };
\* ok = FALSE when a character is not a hex digit.
hex_value(s, i, code_length, value) ==
    IF i = code_length THEN [ok |-> TRUE, value |-> value]
    ELSE IF ~is_hex(buf(s, i)) THEN [ok |-> FALSE, value |-> value]
    ELSE hex_value(s, i + 1, code_length, ShlAdd(value, 4, as_hex(buf(s, i))))

RECURSIVE skip_n(_, _)
skip_n(s, n) == IF n = 0 THEN s ELSE skip_n(skip(s), n - 1)

\* if code_length > 0 { ... }: the escape code of code_length hex digits.
scan_escape_code(s2, l, code_length) ==
    With(hex_value(s2, 0, code_length, U32Zero), LAMBDA h :
        IF ~h.ok
        THEN [s |-> ScanError(s2, "while parsing a quoted scalar, did not find expected hexadecimal number"),
              l |-> l]
        ELSE IF ~IsScalarValue(h.value)
        THEN [s |-> ScanError(s2, "while parsing a quoted scalar, found invalid Unicode character escape code"),
              l |-> l]
        ELSE [s |-> skip_n(s2, code_length),
              l |-> [l EXCEPT !.string = Append(@, CharFromU32(CodePoint(h.value)))]])

\* One escape sequence: the scanner stands on the backslash and e is the
\* character after it.
scan_escape(s, l, e) ==
    IF EscapeCode(e) = -1 /\ CodeLength(e) = 0
    THEN [s |-> ScanError(s, "while parsing a quoted scalar, found unknown escape character"),
          l |-> l]
    ELSE IF CodeLength(e) > 0
         THEN scan_escape_code(lookahead(skip(skip(s)), CodeLength(e)), l, CodeLength(e))
         ELSE [s |-> skip(skip(s)),
               l |-> [l EXCEPT !.string = Append(@, CharFromU32(EscapeCode(e)))]]

RECURSIVE flow_chars(_, _, _)
\* while !is_blankz(self.ch()) { match self.ch() { ... } self.lookahead(2); }
flow_chars(s, l, single) ==
    IF is_blankz(ch(s)) THEN [s |-> s, l |-> l]
    ELSE IF ch(s) = "'" /\ buf(s, 1) = "'" /\ single
    THEN flow_chars(lookahead(skip(skip(s)), 2),
                    [l EXCEPT !.string = Append(@, "'")], single)
    ELSE IF (ch(s) = "'" /\ single) \/ (ch(s) = "\"" /\ ~single)
    THEN [s |-> s, l |-> l]
    ELSE IF ch(s) = "\\" /\ ~single /\ is_break(buf(s, 1))
    THEN [s |-> skip_line(skip(lookahead(s, 3))),
          l |-> [l EXCEPT !.leading_blanks = TRUE]]
    ELSE IF ch(s) = "\\" /\ ~single
    THEN With(scan_escape(s, l, buf(s, 1)), LAMBDA r :
             IF Failed(r.s) THEN r ELSE flow_chars(lookahead(r.s, 2), r.l, single))
    ELSE flow_chars(lookahead(skip(s), 2),
                    [l EXCEPT !.string = Append(@, ch(s))], single)

RECURSIVE flow_blanks(_, _)
\* while is_blank(self.ch()) || is_break(self.ch()) { ... }
flow_blanks(s, l) ==
    IF is_blank(ch(s))
    THEN flow_blanks(lookahead(skip(s), 1), take_blank(l, ch(s)))
    ELSE IF is_break(ch(s))
         THEN take_break(l, s, 0, LAMBDA s1, l1, i : flow_blanks(s1, l1))
         ELSE [s |-> s, l |-> l]

IsClosingQuote(s, single) ==
    (ch(s) = "'" /\ single) \/ (ch(s) = "\"" /\ ~single)

\* if leading_blanks { fold the breaks } else { string.push_str(&whitespaces) }
flow_join(l) ==
    IF l.leading_blanks
    THEN fold_breaks(l)
    ELSE [l EXCEPT !.string = @ \o l.whitespaces, !.whitespaces = << >>]

RECURSIVE flow_loop_closes_at_end(_, _, _)
\* flow_loop that takes the end of the input for the closing quote.
flow_loop_closes_at_end(s0, l0, single) ==
    With(lookahead(s0, 4), LAMBDA s :
        IF IsDocumentIndicator(s)
        THEN [s |-> ScanError(s, "while scanning a quoted scalar, found unexpected document indicator"),
              l |-> l0]
        ELSE IF is_z(ch(s))
        THEN [s |-> s, l |-> l0]
        ELSE With(flow_chars(lookahead(s, 2), [l0 EXCEPT !.leading_blanks = FALSE], single),
                  LAMBDA r1 :
            IF Failed(r1.s) THEN r1
            ELSE With(lookahead(r1.s, 1), LAMBDA s1 :
                IF IsClosingQuote(s1, single)
                THEN [s |-> s1, l |-> r1.l]
                ELSE With(flow_blanks(s1, r1.l), LAMBDA r2 :
                    flow_loop_closes_at_end(r2.s, flow_join(r2.l), single)))))

RECURSIVE flow_loop(_, _, _)
flow_loop(s0, l0, single) ==
    With(lookahead(s0, 4), LAMBDA s :
        IF IsDocumentIndicator(s)
        THEN [s |-> ScanError(s, "while scanning a quoted scalar, found unexpected document indicator"),
              l |-> l0]
        ELSE IF is_z(ch(s))
        THEN [s |-> ScanError(s, "while scanning a quoted scalar, found unexpected end of stream"),
              l |-> l0]
        ELSE With(flow_chars(lookahead(s, 2), [l0 EXCEPT !.leading_blanks = FALSE], single),
                  LAMBDA r1 :
            IF Failed(r1.s) THEN r1
            ELSE With(lookahead(r1.s, 1), LAMBDA s1 :
                IF IsClosingQuote(s1, single)
                THEN [s |-> s1, l |-> r1.l]
                ELSE With(flow_blanks(s1, r1.l), LAMBDA r2 :
                    flow_loop(r2.s, flow_join(r2.l), single)))))

scan_flow_scalar(s, single) ==
    With(flow_loop(skip(s), ScalarLocals, single), LAMBDA r :
        IF Failed(r.s)
        THEN [s |-> r.s, tok |-> Token(s.mark, "")]
        ELSE [s |-> skip(r.s),
              tok |-> ScalarToken(s.mark,
                                  IF single THEN "SingleQuoted" ELSE "DoubleQuoted",
                                  r.l.string)])

\* self.adjacent_value_allowed_at = self.mark.index;
mark_adjacent_value(r) ==
    [r EXCEPT !.s = IF Failed(r.s) THEN r.s
                    ELSE [r.s EXCEPT !.adjacent_value_allowed_at = r.s.mark.index]]

fetch_flow_scalar(s, single) ==
    Try(save_simple_key(s), LAMBDA s1 :
        push_scanned(mark_adjacent_value(scan_flow_scalar(disallow_simple_key(s1), single))))

\* ------------------------------------------------------------------------
\* Block scalars
\* ------------------------------------------------------------------------
RECURSIVE skip_blanks(_)
\* while is_blank(self.ch()) { self.skip(); self.lookahead(1); }
skip_blanks(s) ==
    IF is_blank(ch(s)) THEN skip_blanks(lookahead(skip(s), 1)) ELSE s

RECURSIVE skip_indent_spaces(_, _)
skip_indent_spaces(s, indent) ==
    IF (indent = 0 \/ s.mark.col < indent) /\ buf(s, 0) = SP
    THEN skip_indent_spaces(lookahead(skip(s), 1), indent)
    ELSE s

Max(a, b) == IF a >= b THEN a ELSE b

RECURSIVE block_scalar_breaks_loop(_, _, _, _)
block_scalar_breaks_loop(s0, indent, breaks, max_indent) ==
    With(skip_indent_spaces(lookahead(s0, 1), indent), LAMBDA s :
        IF (indent = 0 \/ s.mark.col < indent) /\ buf(s, 0) = TAB
        THEN [s |-> ScanError(s, "while scanning a block scalar, found a tab character where an indentation space is expected"),
              indent |-> indent, breaks |-> breaks]
        ELSE IF ~is_break(ch(s))
        THEN [s |-> s,
              indent |-> IF indent = 0
                         THEN Max(Max(Max(max_indent, s.mark.col), s.indent + 1), 1)
                         ELSE indent,
              breaks |-> breaks]
        ELSE With(read_break(lookahead(s, 2), breaks), LAMBDA r :
                 block_scalar_breaks_loop(r.s, indent, r.str, Max(max_indent, s.mark.col))))

block_scalar_breaks(s, indent, breaks) ==
    block_scalar_breaks_loop(s, indent, breaks, 0)

RECURSIVE block_line(_, _)
\* while !is_breakz(self.ch()) { string.push(self.ch()); self.skip(); self.lookahead(1); }
block_line(s, str) ==
    IF is_breakz(ch(s)) THEN [s |-> s, str |-> str]
    ELSE block_line(lookahead(skip(s), 1), Append(str, ch(s)))

\* The string before the content of a line is appended: a folded break
\* becomes a space, otherwise the leading break is kept; the trailing
\* breaks follow.
block_line_start(l, literal, trailing_blank) ==
    (IF ~literal /\ l.leading_break # << >> /\ ~l.leading_blank /\ ~trailing_blank
     THEN IF l.trailing_breaks = << >> THEN Append(l.string, SP) ELSE l.string
     ELSE l.string \o l.leading_break)
    \o l.trailing_breaks

RECURSIVE block_scalar_loop(_, _, _)
\* l: string, leading_break, trailing_breaks, leading_blank, indent
block_scalar_loop(s, l, literal) ==
    IF ~(s.mark.col = l.indent /\ ~is_z(ch(s)))
    THEN [s |-> s, l |-> l]
    ELSE With(block_line(s, block_line_start(l, literal, is_blank(ch(s)))), LAMBDA r1 :
         With([l EXCEPT !.string = r1.str,
                        !.leading_break = << >>,
                        !.trailing_breaks = << >>,
                        !.leading_blank = is_blank(ch(s))], LAMBDA l1 :
            IF is_z(ch(r1.s))
            THEN [s |-> r1.s, l |-> l1]
            ELSE With(read_break(lookahead(r1.s, 2), << >>), LAMBDA r2 :
                 With(block_scalar_breaks(r2.s, l1.indent, << >>), LAMBDA r3 :
                 With([l1 EXCEPT !.leading_break = r2.str,
                                 !.trailing_breaks = r3.breaks,
                                 !.indent = r3.indent], LAMBDA l2 :
                    IF Failed(r3.s)
                    THEN [s |-> r3.s, l |-> l2]
                    ELSE block_scalar_loop(r3.s, l2, literal))))))

Chomping(c) == IF c = "+" THEN 1 ELSE -1

DigitValue(c) == IndexOf(DigitSeq, c) - 1

ZeroIndent == "while scanning a block scalar, found an indentation indicator equal to 0"

\* The header after '|' or '>': chomping and indentation indicators in
\* either order.
block_scalar_header(s) ==
    IF ch(s) = "+" \/ ch(s) = "-"
    THEN With(lookahead(skip(s), 1), LAMBDA s1 :
         IF is_digit(ch(s1))
         THEN IF ch(s1) = "0"
              THEN [s |-> ScanError(s1, ZeroIndent), chomping |-> Chomping(ch(s)),
                    increment |-> 0]
              ELSE [s |-> skip(s1), chomping |-> Chomping(ch(s)),
                    increment |-> DigitValue(ch(s1))]
         ELSE [s |-> s1, chomping |-> Chomping(ch(s)), increment |-> 0])
    ELSE IF is_digit(ch(s))
    THEN IF ch(s) = "0"
         THEN [s |-> ScanError(s, ZeroIndent), chomping |-> 0, increment |-> 0]
         ELSE With(lookahead(skip(s), 1), LAMBDA s1 :
              IF ch(s1) = "+" \/ ch(s1) = "-"
              THEN [s |-> skip(s1), chomping |-> Chomping(ch(s1)),
                    increment |-> DigitValue(ch(s))]
              ELSE [s |-> s1, chomping |-> 0, increment |-> DigitValue(ch(s))])
    ELSE [s |-> s, chomping |-> 0, increment |-> 0]

\* if self.ch() == '#' { while !is_breakz(self.ch()) { self.skip(); self.lookahead(1); } }
skip_comment(s) == IF ch(s) = "#" THEN skip_to_breakz(s) ELSE s

\* if is_break(self.ch()) { self.lookahead(2); self.skip_line(); }
skip_break(s) == IF is_break(ch(s)) THEN skip_line(lookahead(s, 2)) ELSE s

\* Chomp the tail of the string.
chomped(chomping, l) ==
    (IF chomping # -1 THEN l.string \o l.leading_break ELSE l.string)
    \o (IF chomping = 1 THEN l.trailing_breaks ELSE << >>)

\* The explicit indentation of the header, 0 when there is none.
header_indent(s, increment) ==
    IF increment > 0
    THEN IF s.indent >= 0 THEN s.indent + increment ELSE increment
    ELSE 0

scan_block_scalar(s, literal) ==
    With(block_scalar_header(lookahead(skip(s), 1)), LAMBDA h :
    IF Failed(h.s) THEN [s |-> h.s, tok |-> Token(s.mark, "")]
    ELSE With(skip_comment(skip_blanks(lookahead(h.s, 1))), LAMBDA s2 :
    IF ~is_breakz(ch(s2))
    THEN [s |-> ScanError(s2, "while scanning a block scalar, did not find expected comment or line break"),
          tok |-> Token(s.mark, "")]
    ELSE With(skip_break(s2), LAMBDA s3 :
         With(block_scalar_breaks(s3, header_indent(s3, h.increment), << >>), LAMBDA b :
    IF Failed(b.s) THEN [s |-> b.s, tok |-> Token(s.mark, "")]
    ELSE With(lookahead(b.s, 1), LAMBDA s4 :
         With(block_scalar_loop(s4,
                  [string |-> << >>, leading_break |-> << >>,
                   trailing_breaks |-> b.breaks, leading_blank |-> FALSE,
                   indent |-> b.indent], literal), LAMBDA r :
    IF Failed(r.s) THEN [s |-> r.s, tok |-> Token(s.mark, "")]
    ELSE [s |-> r.s,
          tok |-> ScalarToken(s4.mark, IF literal THEN "Literal" ELSE "Foled",
                              chomped(h.chomping, r.l))]))))))

fetch_block_scalar(s, literal) ==
    Try(save_simple_key(s), LAMBDA s1 :
        push_scanned(scan_block_scalar(allow_simple_key(s1), literal)))

\* ------------------------------------------------------------------------
\* Tags
\* ------------------------------------------------------------------------
scan_tag_handle(s0, directive) ==
    With(lookahead(s0, 1), LAMBDA s :
        IF ch(s) # "!"
        THEN [s |-> ScanError(s, "while scanning a tag, did not find expected '!'"),
              str |-> << >>]
        ELSE With(scan_alpha(lookahead(skip(s), 1), <<"!">>), LAMBDA r :
            IF ch(r.s) = "!"
            THEN [s |-> skip(r.s), str |-> Append(r.str, "!")]
            ELSE IF directive /\ r.str # <<"!">>
                 THEN [s |-> ScanError(r.s, "while parsing a tag directive, did not find expected '!'"),
                       str |-> r.str]
                 ELSE r))

IsUriChar(c) ==
    \/ c \in {";", "/", "?", ":", "@", "&", "=", "+", "$", ",", ".", "!", "~",
              "*", "'", "(", ")", "[", "]", "%"}
    \/ is_alpha(c)

\* The width announced by the leading octet of a UTF-8 sequence, 0 when the
\* octet cannot lead one.
LeadingWidth(octet) ==
    IF octet < 128 THEN 1
    ELSE IF 192 <= octet /\ octet < 224 THEN 2
    ELSE IF 224 <= octet /\ octet < 240 THEN 3
    ELSE IF 240 <= octet /\ octet < 248 THEN 4
    ELSE 0

RECURSIVE uri_octets(_, _, _)

\* One escaped octet, once it is known to be %XX.
uri_octet(s, width, code, octet) ==
    IF width = 0 /\ LeadingWidth(octet) = 0
    THEN [s |-> ScanError(s, "while parsing a tag, found an incorrect leading UTF-8 octet"),
          code |-> code]
    ELSE IF width # 0 /\ ~(128 <= octet /\ octet < 192)
    THEN [s |-> ScanError(s, "while parsing a tag, found an incorrect trailing UTF-8 octet"),
          code |-> code]
    ELSE IF width = 0
    THEN IF LeadingWidth(octet) = 1
         THEN [s |-> skip(skip(skip(s))), code |-> ShlAdd(U32Zero, 8, octet)]
         ELSE uri_octets(skip(skip(skip(s))), LeadingWidth(octet) - 1,
                         ShlAdd(U32Zero, 8, octet))
    ELSE IF width = 1
         THEN [s |-> skip(skip(skip(s))), code |-> ShlAdd(code, 8, octet)]
         ELSE uri_octets(skip(skip(skip(s))), width - 1, ShlAdd(code, 8, octet))

\* The loop of scan_uri_escapes: width is 0 before the leading octet.
uri_octets(s0, width, code) ==
    With(lookahead(s0, 3), LAMBDA s :
        IF ~(ch(s) = "%" /\ is_hex(buf(s, 1)) /\ is_hex(buf(s, 2)))
        THEN [s |-> ScanError(s, "while parsing a tag, did not find URI escaped octet"),
              code |-> code]
        ELSE uri_octet(s, width, code, as_hex(buf(s, 1)) * 16 + as_hex(buf(s, 2))))

scan_uri_escapes(s) ==
    With(uri_octets(s, 0, U32Zero), LAMBDA r :
        IF Failed(r.s) THEN [s |-> r.s, c |-> NUL]
        ELSE IF ~IsScalarValue(r.code)
             THEN [s |-> ScanError(r.s, "while parsing a tag, found an invalid UTF-8 codepoint"),
                   c |-> NUL]
             ELSE [s |-> r.s, c |-> CharFromU32(CodePoint(r.code))])

RECURSIVE tag_uri_loop(_, _, _)
tag_uri_loop(s, str, length) ==
    IF ~IsUriChar(ch(s))
    THEN [s |-> s, str |-> str, length |-> length]
    ELSE IF ch(s) = "%"
         THEN With(scan_uri_escapes(s), LAMBDA e :
                  IF Failed(e.s) THEN [s |-> e.s, str |-> str, length |-> length]
                  ELSE tag_uri_loop(lookahead(e.s, 1), Append(str, e.c), length + 1))
         ELSE tag_uri_loop(lookahead(skip(s), 1), Append(str, ch(s)), length + 1)

scan_tag_uri(s, head) ==
    With(tag_uri_loop(lookahead(s, 1),
                      IF Len(head) > 1 THEN Tail(head) ELSE << >>, Len(head)),
         LAMBDA r :
        IF Failed(r.s) THEN [s |-> r.s, str |-> r.str]
        ELSE IF r.length = 0
             THEN [s |-> ScanError(r.s, "while parsing a tag, did not find expected tag URI"),
                   str |-> r.str]
             ELSE [s |-> r.s, str |-> r.str])

NoTag(s) == [s |-> s, handle |-> << >>, suffix |-> << >>]

\* if self.buffer[1] == '<' { ... }: a verbatim tag.
scan_verbatim_tag(s) ==
    With(scan_tag_uri(skip(skip(s)), << >>), LAMBDA u :
        IF Failed(u.s) THEN NoTag(u.s)
        ELSE IF ch(u.s) # ">"
             THEN NoTag(ScanError(u.s, "while scanning a tag, did not find the expected '>'"))
             ELSE [s |-> skip(u.s), handle |-> << >>, suffix |-> u.str])

\* else { ... }: the tag is either '!suffix' or '!handle!suffix'.
scan_shorthand_tag(s) ==
    With(scan_tag_handle(s, FALSE), LAMBDA h :
        IF Failed(h.s) THEN NoTag(h.s)
        ELSE IF Len(h.str) >= 2 /\ Head(h.str) = "!" /\ Last(h.str) = "!"
             THEN With(scan_tag_uri(h.s, << >>), LAMBDA u :
                      [s |-> u.s, handle |-> h.str, suffix |-> u.str])
             ELSE With(scan_tag_uri(h.s, h.str), LAMBDA u :
                      IF Failed(u.s) THEN NoTag(u.s)
                      ELSE IF u.str = << >>
                           THEN [s |-> u.s, handle |-> << >>, suffix |-> <<"!">>]
                           ELSE [s |-> u.s, handle |-> <<"!">>, suffix |-> u.str]))

\* The handle and suffix of a tag, before the check of what follows it.
scan_tag_parts(s0) ==
    With(lookahead(s0, 2), LAMBDA s :
        IF buf(s, 1) = "<" THEN scan_verbatim_tag(s) ELSE scan_shorthand_tag(s))

scan_tag(s) ==
    With(scan_tag_parts(s), LAMBDA r :
        IF Failed(r.s) THEN [s |-> r.s, tok |-> Token(s.mark, "")]
        ELSE With(lookahead(r.s, 1), LAMBDA s1 :
            IF is_blankz(ch(s1))
            THEN [s |-> s1, tok |-> TagToken(s.mark, "Tag", r.handle, r.suffix)]
            ELSE [s |-> ScanError(s1, "while scanning a tag, did not find expected whitespace or line break"),
                  tok |-> Token(s.mark, "")]))

fetch_tag(s) ==
    Try(save_simple_key(s), LAMBDA s1 :
        push_scanned(scan_tag(disallow_simple_key(s1))))

\* ------------------------------------------------------------------------
\* Directives
\* ------------------------------------------------------------------------
scan_directive_name(s) ==
    With(scan_alpha(lookahead(s, 1), << >>), LAMBDA r :
        IF r.str = << >>
        THEN [s |-> ScanError(r.s, "while scanning a directive, could not find expected directive name"),
              str |-> r.str]
        ELSE IF ~is_blankz(ch(r.s))
             THEN [s |-> ScanError(r.s, "while scanning a directive, found unexpected non-alphabetical character"),
                   str |-> r.str]
             ELSE r)

RECURSIVE version_number_loop(_, _, _)
\* val is a u32: the multiplication and the addition fail on overflow.
version_number_loop(s, val, length) ==
    IF ~is_digit(ch(s))
    THEN [s |-> s, val |-> val, length |-> length]
    ELSE IF length + 1 > 9
         THEN [s |-> ScanError(s, "while scanning a YAML directive, found extremely long version number"),
               val |-> val, length |-> length]
         ELSE version_number_loop(lookahead(skip(s), 1),
                                  val * 10 + DigitValue(ch(s)), length + 1)

scan_version_directive_number(s) ==
    With(version_number_loop(lookahead(s, 1), 0, 0), LAMBDA r :
        IF Failed(r.s) THEN r
        ELSE IF r.length = 0
             THEN [r EXCEPT !.s = ScanError(r.s, "while scanning a YAML directive, did not find expected version number")]
             ELSE r)

scan_version_directive_value(s, mark) ==
    With(scan_version_directive_number(skip_blanks(lookahead(s, 1))), LAMBDA major :
        IF Failed(major.s) THEN [s |-> major.s, tok |-> Token(mark, "")]
        ELSE IF ch(major.s) # "."
        THEN [s |-> ScanError(major.s, "while scanning a YAML directive, did not find expected digit or '.' character"),
              tok |-> Token(mark, "")]
        ELSE With(scan_version_directive_number(skip(major.s)), LAMBDA minor :
            IF Failed(minor.s) THEN [s |-> minor.s, tok |-> Token(mark, "")]
            ELSE [s |-> minor.s,
                  tok |-> TextToken(mark, "VersionDirective",
                                    <<ToString(major.val), ToString(minor.val)>>)]))

scan_tag_directive_value(s, mark) ==
    With(scan_tag_handle(skip_blanks(lookahead(s, 1)), TRUE), LAMBDA h :
        IF Failed(h.s) THEN [s |-> h.s, tok |-> Token(mark, "")]
        ELSE With(scan_tag_uri(skip_blanks(lookahead(h.s, 1)), << >>), LAMBDA u :
            IF Failed(u.s) THEN [s |-> u.s, tok |-> Token(mark, "")]
            ELSE With(lookahead(u.s, 1), LAMBDA s1 :
                IF is_blankz(ch(s1))
                THEN [s |-> s1, tok |-> TagToken(mark, "TagDirective", h.str, u.str)]
                ELSE [s |-> ScanError(s1, "while scanning TAG, did not find expected whitespace or line break"),
                      tok |-> Token(mark, "")])))

\* The match on the directive name.
scan_directive_value(s, name, start_mark) ==
    IF name = <<"Y", "A", "M", "L">>
    THEN scan_version_directive_value(s, start_mark)
    ELSE IF name = <<"T", "A", "G">>
    THEN scan_tag_directive_value(s, start_mark)
    ELSE [s |-> skip_to_breakz(lookahead(s, 1)),
          tok |-> TagToken(start_mark, "TagDirective", << >>, << >>)]

scan_directive(s) ==
    With(scan_directive_name(skip(s)), LAMBDA name :
    IF Failed(name.s) THEN [s |-> name.s, tok |-> Token(s.mark, "")]
    ELSE With(scan_directive_value(name.s, name.str, s.mark), LAMBDA r :
    IF Failed(r.s) THEN r
    ELSE With(skip_comment(skip_blanks(lookahead(r.s, 1))), LAMBDA s2 :
    IF ~is_breakz(ch(s2))
    THEN [s |-> ScanError(s2, "while scanning a directive, did not find expected comment or line break"),
          tok |-> r.tok]
    ELSE [s |-> skip_break(s2), tok |-> r.tok])))

fetch_directive(s) ==
    Try(remove_simple_key(unroll_indent(s, -1)), LAMBDA s1 :
        push_scanned(scan_directive(disallow_simple_key(s1))))

\* ------------------------------------------------------------------------
\* fetch_next_token
\* ------------------------------------------------------------------------
\* The test for ':' without the condition on flow_level.
IsValueIndicator_in_block(s) ==
    /\ buf(s, 0) = ":"
    /\ \/ is_blankz(buf(s, 1))
       \/ is_flow(buf(s, 1))
       \/ s.mark.index = s.adjacent_value_allowed_at

\* The match on the first two characters of the lookahead.
\* ':' if is_blankz(nc) || ((self.flow_level > 0) && (is_flow(nc) ||
\*         self.mark.index == self.adjacent_value_allowed_at))
IsValueIndicator(s) ==
    /\ buf(s, 0) = ":"
    /\ \/ is_blankz(buf(s, 1))
       \/ /\ s.flow_level > 0
          /\ is_flow(buf(s, 1)) \/ s.mark.index = s.adjacent_value_allowed_at

dispatch(s) ==
    LET c == buf(s, 0)
        nc == buf(s, 1)
    IN IF c = "[" THEN fetch_flow_collection_start(s, "FlowSequenceStart")
       ELSE IF c = "{" THEN fetch_flow_collection_start(s, "FlowMappingStart")
       ELSE IF c = "]" THEN fetch_flow_collection_end(s, "FlowSequenceEnd")
       ELSE IF c = "}" THEN fetch_flow_collection_end(s, "FlowMappingEnd")
       ELSE IF c = "," THEN fetch_flow_entry(s)
       ELSE IF c = "-" /\ is_blankz(nc) THEN fetch_block_entry(s)
       ELSE IF c = "?" /\ is_blankz(nc) THEN fetch_key(s)
       ELSE IF IsValueIndicator(s) THEN fetch_value(s)
       ELSE IF c = "*" THEN fetch_anchor(s, TRUE)
       ELSE IF c = "&" THEN fetch_anchor(s, FALSE)
       ELSE IF c = "!" THEN fetch_tag(s)
       ELSE IF c = "|" /\ s.flow_level = 0 THEN fetch_block_scalar(s, TRUE)
       ELSE IF c = ">" /\ s.flow_level = 0 THEN fetch_block_scalar(s, FALSE)
       ELSE IF c = "'" THEN fetch_flow_scalar(s, TRUE)
       ELSE IF c = "\"" THEN fetch_flow_scalar(s, FALSE)
       ELSE IF c = "-" /\ ~is_blankz(nc) THEN fetch_plain_scalar(s)
       ELSE IF (c = ":" \/ c = "?") /\ ~is_blankz(nc) /\ s.flow_level = 0
            THEN fetch_plain_scalar(s)
       ELSE IF c = "#" /\ s.with_comments THEN fetch_comment(s)
       ELSE IF c = "%" \/ c = "@" \/ c = BACKTICK
            THEN ScanError(s, "unexpected character")
       ELSE fetch_plain_scalar(s)

\* The part of fetch_next_token before the token is chosen: whitespace is
\* skipped, stale simple keys are aged out, the indents deeper than the
\* current column are closed and four characters are looked ahead.
before_token(s0) ==
    With(skip_to_next_token(lookahead(s0, 1)), LAMBDA s1 :
    Try(stale_simple_keys(s1), LAMBDA s2 :
    With(unroll_indent(s2, s2.mark.col), LAMBDA s3 : lookahead(s3, 4))))

\* The choice of the fetch function, from the stream end and the indicators
\* at column 0 down to the match on the first characters.
fetch_token_at(s3) ==
    IF Failed(s3) THEN s3
    ELSE IF is_z(ch(s3)) THEN fetch_stream_end(s3)
    ELSE IF s3.mark.col = 0 /\ ch(s3) = "%" THEN fetch_directive(s3)
    ELSE IF s3.mark.col = 0 /\ buf(s3, 0) = "-" /\ buf(s3, 1) = "-"
            /\ buf(s3, 2) = "-" /\ is_blankz(buf(s3, 3))
         THEN fetch_document_indicator(s3, "DocumentStart")
    ELSE IF s3.mark.col = 0 /\ buf(s3, 0) = "." /\ buf(s3, 1) = "."
            /\ buf(s3, 2) = "." /\ is_blankz(buf(s3, 3))
         THEN fetch_document_indicator(s3, "DocumentEnd")
    ELSE dispatch(s3)

fetch_next_token(s0) ==
    With(lookahead(s0, 1), LAMBDA s1 :
        IF ~s1.stream_start_produced
        THEN fetch_stream_start(s1)
        ELSE With(before_token(s1), LAMBDA s3 : fetch_token_at(s3)))

\* ------------------------------------------------------------------------
\* fetch_more_tokens and next_token
\* ------------------------------------------------------------------------
KeyPending(s) ==
    \E i \in 1..Len(s.simple_keys) :
        s.simple_keys[i].possible /\ s.simple_keys[i].token_number = s.tokens_parsed

\* need_more_tokens that asks for more only when the queue is empty.
need_more_tokens_ignores_keys(s) ==
    [s |-> s, need_more |-> s.tokens = << >>]

\* The first half of a turn of the loop of fetch_more_tokens, which settles
\* need_more: stale simple keys are aged out unless the queue is empty.
need_more_tokens(s) ==
    IF s.tokens = << >>
    THEN [s |-> s, need_more |-> TRUE]
    ELSE With(stale_simple_keys(s), LAMBDA s1 :
             [s |-> s1, need_more |-> ~Failed(s1) /\ KeyPending(s1)])

\* One turn of the loop of fetch_more_tokens: done tells that the loop was
\* left (need_more = false, or an error returned).
fetch_more_step(s) ==
    With(need_more_tokens(s), LAMBDA n :
        IF Failed(n.s) THEN [s |-> n.s, done |-> TRUE]
        ELSE IF n.need_more
        THEN With(fetch_next_token(n.s), LAMBDA r : [s |-> r, done |-> Failed(r)])
        ELSE [s |-> [n.s EXCEPT !.token_available = TRUE], done |-> TRUE])

\* The scanner as this turn of the loop hands it to the fetch function, if
\* the turn fetches a token.
token_start(s) == before_token(need_more_tokens(s).s)

\* This turn of the loop fetches a token with fetch_value.
FetchesValue(s) ==
    /\ s.stream_start_produced
    /\ need_more_tokens(s).need_more
    /\ With(token_start(s), LAMBDA s3 :
           /\ ~Failed(s3)
           /\ ~is_z(ch(s3))
           /\ IsValueIndicator(s3)
           /\ ~Failed(fetch_value(s3)))

\* This turn of the loop fetches a token with fetch_comment.
FetchesComment(s) ==
    /\ s.stream_start_produced
    /\ need_more_tokens(s).need_more
    /\ With(token_start(s), LAMBDA s3 :
           ~Failed(s3) /\ ch(s3) = "#" /\ s3.with_comments)

\* This turn of the loop calls fetch_next_token and gets as far as the
\* choice of the fetch function.
FetchesToken(s) ==
    /\ s.stream_start_produced
    /\ need_more_tokens(s).need_more
    /\ ~Failed(token_start(s))

\* pop_token that forgets to record that StreamEnd was handed out.
pop_token_forgets_end(s) ==
    [s EXCEPT !.tokens = Tail(@),
              !.token_available = FALSE,
              !.tokens_parsed = @ + 1]

\* The tail of next_token, once a token is available.
pop_token(s) ==
    LET t == Head(s.tokens) IN
    [s EXCEPT !.tokens = Tail(@),
              !.token_available = FALSE,
              !.tokens_parsed = @ + 1,
              !.stream_end_produced = IF t.type = "StreamEnd" THEN TRUE ELSE @]

\* ------------------------------------------------------------------------
\* The inputs: every concatenation of at most MaxChunks pieces of one family
\* ------------------------------------------------------------------------
RECURSIVE Flatten(_)
Flatten(seqs) == IF seqs = << >> THEN << >> ELSE Head(seqs) \o Flatten(Tail(seqs))

Concats(pieces, n) ==
    {Flatten(f) : f \in UNION {[1..k -> pieces] : k \in 0..n}}

BlockPieces == {<<"a">>, <<":", SP>>, <<"-", SP>>, <<"?", SP>>, <<LF>>, <<SP, SP>>}

FlowPieces == {<<"[">>, <<"]">>, <<"{">>, <<"}">>, <<",">>, <<"a">>, <<":">>,
               <<"\"", "a", "\"">>}

MixedPieces == {<<"-", SP>>, <<"[">>, <<"]">>, <<"a">>, <<":", SP>>, <<LF>>}

CommentPieces == {<<"#">>, <<SP>>, <<"a">>, <<LF>>, <<"-", SP>>, <<":", SP>>}

DocumentPieces == {<<"-", "-", "-">>, <<".", ".", ".">>, <<LF>>, <<"a">>,
                   <<"-", SP>>, <<"@">>}

\* Pairs <<source text, with_comments>>.
Sources ==
    (Concats(BlockPieces, MaxChunks) \X {TRUE})
    \cup (Concats(FlowPieces, MaxChunks) \X {TRUE})
    \cup (Concats(MixedPieces, MaxChunks) \X {TRUE})
    \cup (Concats(CommentPieces, MaxChunks) \X BOOLEAN)
    \cup (Concats(DocumentPieces, MaxChunks) \X {TRUE})

RECURSIVE fetch_more_tokens(_)
\* The loop of fetch_more_tokens run to its end.
fetch_more_tokens(s) ==
    With(fetch_more_step(s), LAMBDA r :
        IF r.done THEN r.s ELSE fetch_more_tokens(r.s))

RECURSIVE scan_all(_, _)
\* The tokens next hands out, one call after the other, until it returns
\* None at the end of the stream or at an error.
scan_all(s, toks) ==
    IF s.stream_end_produced
    THEN toks
    ELSE With(fetch_more_tokens(s), LAMBDA s1 :
             IF Failed(s1)
             THEN toks
             ELSE With(Append(toks, Head(s1.tokens)), LAMBDA toks1 :
                  With(pop_token(s1), LAMBDA s2 : scan_all(s2, toks1))))

\* ------------------------------------------------------------------------
\* The emitter (src/emitter.rs)
\*
\* A Yaml value is a record: kind names the variant, text holds the text of
\* a String, Real or Comment, num the number of an Integer or Alias, flag
\* the value of a Boolean and the inline mark of a Comment, items the
\* entries of an Array and the <<key, value>> pairs of a Hash in insertion
\* order.  The emitter is a record with the fields of struct YamlEmitter:
\* writer is the text in the sink, fail the error or panic that ended the
\* call in flight ("" while it runs), stdout what the debug macros have
\* printed, lines the places where emit_indent began a line.
\* ------------------------------------------------------------------------
Yaml(kind, text, num, flag, items) ==
    [kind |-> kind, text |-> text, num |-> num, flag |-> flag, items |-> items]

YNull == Yaml("Null", << >>, 0, FALSE, << >>)

BadValue == Yaml("BadValue", << >>, 0, FALSE, << >>)

YAlias(id) == Yaml("Alias", << >>, id, FALSE, << >>)

YString(v) == Yaml("String", v, 0, FALSE, << >>)

YBoolean(v) == Yaml("Boolean", << >>, 0, v, << >>)

YInteger(v) == Yaml("Integer", << >>, v, FALSE, << >>)

YReal(v) == Yaml("Real", v, 0, FALSE, << >>)

YComment(comment, inline) == Yaml("Comment", comment, 0, inline, << >>)

YArray(v) == Yaml("Array", << >>, 0, FALSE, v)

YHash(v) == Yaml("Hash", << >>, 0, FALSE, v)

is_comment(node) == node.kind = "Comment"

YamlEmitterNew ==
    [writer |-> << >>, best_indent |-> 2, compact |-> TRUE, level |-> -1,
     fail |-> "", stdout |-> << >>, lines |-> << >>]

compact(e, c) == [e EXCEPT !.compact = c]

write(e, text) == [e EXCEPT !.writer = @ \o text]

writeln(e, text) == write(e, Append(text, LF))

\* println! of the three lines of debug_comment!: the marker, the message
\* and the value.  With them are kept the length of the sink at that moment
\* and whether the value is the first entry of its container.
debug_comment(e, msg, opt, first) ==
    [e EXCEPT !.stdout = Append(@, [msg |-> msg, opt |-> opt, at |-> Len(e.writer),
                                    first |-> first])]

\* debug_comment! and then unreachable!.
debug_comment_disallowed(e, msg, opt) ==
    [debug_comment(e, msg, opt, FALSE) EXCEPT !.fail = "panic: DEBUG-COMMENT-DISALLOWED"]

\* --- the scalar helpers (emitter/funcs.rs) ---
Indicators == {"&", "*", "?", "|", "-", "<", ">", "=", "!", "%", "@", BACKTICK,
               "#", ",", "[", "]", "{", "}"}

DecimalDigits == <<"0", "1", "2", "3", "4", "5", "6", "7", "8", "9">>

Keywords == {<<"t", "r", "u", "e">>, <<"f", "a", "l", "s", "e">>,
             <<"y", "e", "s">>, <<"n", "o">>, <<"o", "n">>, <<"o", "f", "f">>,
             <<"n", "u", "l", "l">>, <<"~">>}

Escaped == {"\"", "\\", LF, CR, TAB}

IsDigit(c) == \E d \in 1..Len(DecimalDigits) : DecimalDigits[d] = c

need_quotes(v) ==
    \/ v = << >>
    \/ v[1] \in {SP, TAB}
    \/ v[Len(v)] \in {SP, TAB}
    \/ v[1] \in Indicators
    \/ \E i \in 1..Len(v) : v[i] \in Escaped
    \/ \E i \in 1..(Len(v) - 1) :
           (v[i] = ":" /\ v[i + 1] = SP) \/ (v[i] = SP /\ v[i + 1] = "#")
    \/ v \in Keywords
    \/ \A i \in 1..Len(v) : IsDigit(v[i])

escape_char(c) ==
    IF c = "\"" THEN <<"\\", "\"">>
    ELSE IF c = "\\" THEN <<"\\", "\\">>
    ELSE IF c = LF THEN <<"\\", "n">>
    ELSE IF c = CR THEN <<"\\", "r">>
    ELSE IF c = TAB THEN <<"\\", "t">>
    ELSE <<c>>

escape_str(e, v) ==
    write(e, <<"\"">> \o Flatten([i \in 1..Len(v) |-> escape_char(v[i])]) \o <<"\"">>)

RECURSIVE Decimal(_)
\* What "{}" writes for an i64.
Decimal(n) ==
    IF n < 0 THEN <<"-">> \o Decimal(-n)
    ELSE IF n < 10 THEN <<DecimalDigits[n + 1]>>
    ELSE Append(Decimal(n \div 10), DecimalDigits[(n % 10) + 1])

\* --- emit ---
Spaces(n) == [i \in 1..n |-> SP]

emit_indent(e) ==
    [e EXCEPT !.writer = @ \o Spaces(e.level * e.best_indent),
              !.lines = Append(@, [at |-> Len(e.writer), level |-> e.level])]

emit_line_begin(e) == emit_indent(writeln(e, << >>))

hash_next_is_comment_inline(hash, i) ==
    i <= Len(hash) /\ hash[i][1].kind = "Comment" /\ hash[i][1].flag

array_next_is_comment_inline(arr, i) ==
    i <= Len(arr) /\ arr[i].kind = "Comment" /\ arr[i].flag

RECURSIVE emit_node(_, _)
RECURSIVE emit_array(_, _)
RECURSIVE array_entries(_, _, _)
RECURSIVE emit_hash(_, _)
RECURSIVE hash_entries(_, _, _)
RECURSIVE hash_entry(_, _, _)
RECURSIVE emit_value(_, _, _)

emit_scalar(e, node) ==
    IF node.kind = "String"
    THEN IF need_quotes(node.text) THEN escape_str(e, node.text) ELSE write(e, node.text)
    ELSE IF node.kind = "Boolean"
    THEN IF node.flag THEN write(e, <<"t", "r", "u", "e">>)
                      ELSE write(e, <<"f", "a", "l", "s", "e">>)
    ELSE IF node.kind = "Integer" THEN write(e, Decimal(node.num))
    ELSE IF node.kind = "Real" THEN write(e, node.text)
    ELSE IF node.kind = "Comment"
    THEN IF node.flag THEN write(e, <<SP, "#">> \o node.text)
                      ELSE write(e, <<"#">> \o node.text)
    ELSE IF node.kind \in {"Null", "BadValue"} THEN write(e, <<"~">>)
    ELSE e

emit_node(e, node) ==
    IF node.kind = "Array" THEN emit_array(e, node.items)
    ELSE IF node.kind = "Hash" THEN emit_hash(e, node.items)
    ELSE emit_scalar(e, node)

\* The tail of one turn of the loops: an inline comment that follows the
\* entry is taken from the iterator and written on the entry's line.
\* i is the place of the next entry of the iterator, counted from 1.
array_entries(e, arr, i) ==
    IF i > Len(arr)
    THEN e
    ELSE With(IF i > 1 THEN emit_line_begin(e) ELSE e, LAMBDA e1 :
         IF is_comment(arr[i])
         THEN Try(emit_node(debug_comment(e1, "emitting comment inside array (as entry)",
                                          arr[i], i = 1),
                            arr[i]),
                  LAMBDA e2 : array_entries(e2, arr, i + 1))
         ELSE Try(emit_value(write(e1, <<"-">>), TRUE, arr[i]), LAMBDA e2 :
              IF array_next_is_comment_inline(arr, i + 1)
              THEN Try(emit_node(debug_comment(e2,
                           "emitting comment inside array (inlined after value)",
                           arr[i + 1], FALSE),
                                 arr[i + 1]),
                       LAMBDA e3 : array_entries(e3, arr, i + 2))
              ELSE array_entries(e2, arr, i + 1)))

emit_array(e, arr) ==
    IF arr = << >>
    THEN write(e, <<"[", "]">>)
    ELSE Try(array_entries([e EXCEPT !.level = @ + 1], arr, 1),
             LAMBDA e1 : [e1 EXCEPT !.level = @ - 1])

hash_entry_without_question_mark(e, key, value) ==
    Try(emit_node(e, key), LAMBDA e1 :
        emit_value(write(e1, <<":">>), FALSE, value))

hash_entry(e, key, value) ==
    IF key.kind \in {"Hash", "Array"}
    THEN Try(emit_value(write(e, <<"?">>), TRUE, key), LAMBDA e1 :
             emit_value(write(emit_line_begin(e1), <<":">>), TRUE, value))
    ELSE Try(emit_node(e, key), LAMBDA e1 :
             emit_value(write(e1, <<":">>), FALSE, value))

hash_entries(e, hash, i) ==
    IF i > Len(hash)
    THEN e
    ELSE With(IF i > 1 THEN emit_line_begin(e) ELSE e, LAMBDA e1 :
         IF is_comment(hash[i][1])
         THEN Try(emit_node(debug_comment(e1, "emitting comment inside hash (as key)",
                                          hash[i][1], i = 1),
                            hash[i][1]),
                  LAMBDA e2 : hash_entries(e2, hash, i + 1))
         ELSE Try(hash_entry(e1, hash[i][1], hash[i][2]), LAMBDA e2 :
              IF hash_next_is_comment_inline(hash, i + 1)
              THEN Try(emit_node(debug_comment(e2,
                           "emitting comment inside hash (inlined after value)",
                           hash[i + 1][1], FALSE),
                                 hash[i + 1][1]),
                       LAMBDA e3 : hash_entries(e3, hash, i + 2))
              ELSE hash_entries(e2, hash, i + 1)))

emit_hash(e, hash) ==
    IF hash = << >>
    THEN write(e, <<"{", "}">>)
    ELSE Try(hash_entries([e EXCEPT !.level = @ + 1], hash, 1),
             LAMBDA e1 : [e1 EXCEPT !.level = @ - 1])

\* writeln, then the indentation of one level more.
value_line_begin(e) ==
    [emit_indent([writeln(e, << >>) EXCEPT !.level = @ + 1]) EXCEPT !.level = @ - 1]

emit_value_ignores_compact(e, inline, value) ==
    IF value.kind \in {"Array", "Hash"}
    THEN With(IF inline \/ value.items = << >>
              THEN write(e, <<SP>>)
              ELSE value_line_begin(e),
              LAMBDA e1 : emit_node(e1, value))
    ELSE IF value.kind = "Comment"
    THEN debug_comment_disallowed(e, "should never emit comment as value", value)
    ELSE emit_node(write(e, <<SP>>), value)

emit_value_writes_comment(e, inline, value) ==
    IF value.kind \in {"Array", "Hash"}
    THEN With(IF (inline /\ e.compact) \/ value.items = << >>
              THEN write(e, <<SP>>)
              ELSE value_line_begin(e),
              LAMBDA e1 : emit_node(e1, value))
    ELSE emit_node(write(e, <<SP>>), value)

emit_value(e, inline, value) ==
    IF value.kind \in {"Array", "Hash"}
    THEN With(IF (inline /\ e.compact) \/ value.items = << >>
              THEN write(e, <<SP>>)
              ELSE value_line_begin(e),
              LAMBDA e1 : emit_node(e1, value))
    ELSE IF value.kind = "Comment"
    THEN debug_comment_disallowed(e, "should never emit comment as value", value)
    ELSE emit_node(write(e, <<SP>>), value)

dump(e, d) ==
    emit_node([writeln(e, <<"-", "-", "-">>) EXCEPT !.level = -1], d)

\* The scanner's caller has made no emitter.
NoEmitter ==
    /\ em = YamlEmitterNew
    /\ doc = YNull
    /\ start = 0
    /\ dumps = 0

\* ------------------------------------------------------------------------
\* The consumer: repeated calls of Iterator::next
\*   pc    where the current call of next stands: "idle" between calls,
\*         "fetch" in the loop of fetch_more_tokens, "pop" before the pop
\*   out   the tokens next has returned so far
\*   ret   what the last call returned: "Some", "None", "" before any call
\*   nones how many calls have returned None
\*   src   the text the scanner was made for
\* ------------------------------------------------------------------------
Init ==
    /\ \E source \in Sources : src = source[1] /\ sc = ScannerNew(source[1], source[2])
    /\ pc = "idle"
    /\ out = << >>
    /\ ret = ""
    /\ nones = 0
    /\ NoEmitter

\* Iterator::next that tries next_token again after an error.
NextAfterError_retries ==
    /\ pc = "idle"
    /\ sc.error # ""
    /\ nones < MaxNones
    /\ pc' = "fetch"
    /\ UNCHANGED <<sc, out, ret, nones, src>>
    /\ UNCHANGED emvars

\* if self.error.is_some() { return None; }
NextAfterError ==
    /\ pc = "idle"
    /\ sc.error # ""
    /\ nones < MaxNones
    /\ ret' = "None"
    /\ nones' = nones + 1
    /\ UNCHANGED <<sc, pc, out, src>>
    /\ UNCHANGED emvars

\* next_token: if self.stream_end_produced { return Ok(None); }
NextAfterEnd ==
    /\ pc = "idle"
    /\ sc.error = ""
    /\ sc.stream_end_produced
    /\ nones < MaxNones
    /\ ret' = "None"
    /\ nones' = nones + 1
    /\ UNCHANGED <<sc, pc, out, src>>
    /\ UNCHANGED emvars

NextBegin ==
    /\ pc = "idle"
    /\ sc.error = ""
    /\ ~sc.stream_end_produced
    /\ pc' = IF sc.token_available THEN "pop" ELSE "fetch"
    /\ UNCHANGED <<sc, out, ret, nones, src>>
    /\ UNCHANGED emvars

\* One turn of the loop of fetch_more_tokens; an Err leaves next_token and
\* Iterator::next stores it in self.error and returns None.
FetchMore ==
    /\ pc = "fetch"
    /\ LET turn(r) ==
               IF IsPanic(r.s)
               THEN /\ sc' = r.s
                    /\ pc' = "panic"
                    /\ UNCHANGED <<ret, nones>>
               ELSE IF Failed(r.s)
               THEN /\ sc' = [r.s EXCEPT !.error = r.s.fail, !.fail = ""]
                    /\ pc' = "idle"
                    /\ ret' = "None"
                    /\ nones' = nones + 1
               ELSE /\ sc' = r.s
                    /\ pc' = IF r.done THEN "pop" ELSE "fetch"
                    /\ UNCHANGED <<ret, nones>>
       IN turn(fetch_more_step(sc))
    /\ UNCHANGED <<out, src>>
    /\ UNCHANGED emvars

Pop ==
    /\ pc = "pop"
    /\ sc' = pop_token(sc)
    /\ out' = Append(out, Head(sc.tokens))
    /\ ret' = "Some"
    /\ pc' = "idle"
    /\ UNCHANGED <<nones, src>>
    /\ UNCHANGED emvars

Next ==
    \/ NextAfterError
    \/ NextAfterEnd
    \/ NextBegin
    \/ FetchMore
    \/ Pop

Spec == Init /\ [][Next]_vars

\* The consumer keeps calling next, and a call that has begun runs on: the
\* loops of next_token are sequential code with no one to wait for. The
\* inputs are those of at most MaxFairChunks pieces.
MaxFairChunks == 3

FairPieces == {<<"a">>, <<":", SP>>, <<"-", SP>>, <<LF>>, <<"[">>, <<"]">>, <<"#">>}

FairInit ==
    /\ \E text \in Concats(FairPieces, MaxFairChunks) :
           src = text /\ sc = ScannerNew(text, TRUE)
    /\ pc = "idle"
    /\ out = << >>
    /\ ret = ""
    /\ nones = 0
    /\ NoEmitter

FairSpec == FairInit /\ [][Next]_vars /\ WF_vars(Next)

\* Texts with document indicators inside block and flow collections.
MaxIndicatorChunks == 4

IndicatorPieces == {<<"-", "-", "-">>, <<".", ".", ".">>, <<LF>>, <<"a">>,
                    <<"-", SP>>, <<"@">>, <<"[">>}

IndicatorInit ==
    \E source \in Concats(IndicatorPieces, MaxIndicatorChunks) :
        /\ src = source
        /\ sc = ScannerNew(source, TRUE)
        /\ pc = "idle"
        /\ out = << >>
        /\ ret = ""
        /\ nones = 0
        /\ NoEmitter

IndicatorSpec == IndicatorInit /\ [][Next]_vars

\* Texts with simple keys that go stale: keys in a flow collection at the
\* column of the enclosing block, keys split from their ':' by a line break,
\* and one-line flow sequences whose ':' comes SimpleKeyReach characters and
\* one character more after their '['.
MaxStaleChunks == 3

SimpleKeyReach == 1024

StalePieces == {<<"a", ":", SP, "[", LF>>, <<"a">>, <<"a", ":">>, <<LF>>, <<"]">>}

\* '[', n characters of entries of 7 letters and a comma, ']' and ':'.
LongKey(n) ==
    <<"[">> \o [i \in 1..n |-> IF i % 8 = 0 THEN "," ELSE "a"] \o <<"]", ":">>

StaleSources ==
    Concats(StalePieces, MaxStaleChunks)
    \cup {LongKey(SimpleKeyReach - 2), LongKey(SimpleKeyReach - 1)}

StaleInit ==
    \E source \in StaleSources :
        /\ src = source
        /\ sc = ScannerNew(source, TRUE)
        /\ pc = "idle"
        /\ out = << >>
        /\ ret = ""
        /\ nones = 0
        /\ NoEmitter

StaleSpec == StaleInit /\ [][Next]_vars

\* Texts of nested flow collections, and the texts of MaxFlowLevel and of
\* MaxFlowLevel + 1 flow collections opened inside one another.
MaxNestChunks == 4

NestPieces == {<<"[">>, <<"]">>, <<"{">>, <<"}">>, <<",">>, <<"a">>}

Deep(n) == [i \in 1..n |-> IF i % 2 = 0 THEN "{" ELSE "["]

NestSources ==
    Concats(NestPieces, MaxNestChunks)
    \cup {Deep(MaxFlowLevel), Deep(MaxFlowLevel + 1)}

NestInit ==
    \E source \in NestSources :
        /\ src = source
        /\ sc = ScannerNew(source, TRUE)
        /\ pc = "idle"
        /\ out = << >>
        /\ ret = ""
        /\ nones = 0
        /\ NoEmitter

NestSpec == NestInit /\ [][Next]_vars

\* Texts of block sequences and mappings, at one column and nested, with
\* flow collections among them.
MaxBlockChunks == 4

IndentPieces == {<<"-", SP>>, <<"?", SP>>, <<":", SP>>, <<"a">>, <<LF>>, <<"[">>, <<"]">>}

BlockInit ==
    \E source \in Concats(IndentPieces, MaxBlockChunks) :
        /\ src = source
        /\ sc = ScannerNew(source, TRUE)
        /\ pc = "idle"
        /\ out = << >>
        /\ ret = ""
        /\ nones = 0
        /\ NoEmitter

BlockSpec == BlockInit /\ [][Next]_vars

\* Texts of plain scalars over several lines, at the top, as the value of
\* a block mapping and in a flow sequence.
MaxFoldChunks == 5

FoldPieces == {<<"a">>, <<SP>>, <<LF>>, <<"a", ":", SP, "a">>, <<"[", "a">>}

FoldInit ==
    \E source \in Concats(FoldPieces, MaxFoldChunks) :
        /\ src = source
        /\ sc = ScannerNew(source, TRUE)
        /\ pc = "idle"
        /\ out = << >>
        /\ ret = ""
        /\ nones = 0
        /\ NoEmitter

FoldSpec == FoldInit /\ [][Next]_vars

\* Texts of quoted scalars, closed and not, with document indicators.
MaxQuoteChunks == 4

QuotePieces == {<<"\"">>, <<"'">>, <<"a">>, <<SP>>, <<LF>>,
                <<"-", "-", "-">>, <<LF, ".", ".", ".", SP>>}

QuoteInit ==
    \E source \in Concats(QuotePieces, MaxQuoteChunks) :
        /\ src = source
        /\ sc = ScannerNew(source, TRUE)
        /\ pc = "idle"
        /\ out = << >>
        /\ ret = ""
        /\ nones = 0
        /\ NoEmitter

QuoteSpec == QuoteInit /\ [][Next]_vars

\* Double-quoted scalars that begin with a \\x, \\u or \\U escape: digits of
\* both cases, a surrogate, the greatest code point and the values above
\* it, a character that is no hex digit, and too few digits.
MaxHexChunks == 4

HexPieces == {<<"0", "0">>, <<"4", "1">>, <<"d", "8">>, <<"1", "0">>, <<"1", "1">>,
              <<"F", "F">>, <<"g">>, <<"4">>}

EscapeInit ==
    \E e \in {"x", "u", "U"}, digits \in Concats(HexPieces, MaxHexChunks) :
        /\ src = <<"\"", "\\", e>> \o digits \o <<"\"">>
        /\ sc = ScannerNew(src, TRUE)
        /\ pc = "idle"
        /\ out = << >>
        /\ ret = ""
        /\ nones = 0
        /\ NoEmitter

EscapeSpec == EscapeInit /\ [][Next]_vars

\* Texts of block lines and comment lines that start at several columns,
\* scanned with comment tokens.
MaxCommentChunks == 4

CommentLines == {<<SP, "-", SP, "a", LF>>, <<"-", SP, "a", LF>>,
                 <<"#", "c", LF>>, <<SP, "#", "c", LF>>,
                 <<"a", ":", LF>>, <<SP, "a", ":", SP, "a", LF>>}

CommentInit ==
    \E source \in Concats(CommentLines, MaxCommentChunks) :
        /\ src = source
        /\ sc = ScannerNew(source, TRUE)
        /\ pc = "idle"
        /\ out = << >>
        /\ ret = ""
        /\ nones = 0
        /\ NoEmitter

CommentSpec == CommentInit /\ [][Next]_vars

\* Texts cut off at every point: the prefixes of the texts of at most
\* MaxCutLines lines with quoted and block scalars, escapes, tags,
\* directives, anchors and "\r\n" breaks.
MaxCutLines == 2

CutLines == {<<"\"", "a", "\\", "x", "4", "1", "\\", CR, LF, SP, "b", "\"", SP>>,
             <<"'", "a", "'", "'", LF, "b", "'", SP>>,
             <<"|", "+", "1", SP, "#", "c", LF, SP, "a", CR, LF>>,
             <<">", "-", CR, LF, SP, "a", LF, LF>>,
             <<"!", "<", "%", "4", "1", "a", ">", SP>>,
             <<"%", "T", "A", "G", SP, "!", SP, "!", "a", LF>>,
             <<"-", "-", "-", SP, "&", "x", SP>>,
             <<"-", SP, "?", SP, "a", ":", SP, "[", "b", ",", "c", "]", CR, LF>>,
             <<".", ".", ".", SP, "#", "c", CR>>}

Prefixes(text) == {SubSeq(text, 1, k) : k \in 0..Len(text)}

CutInit ==
    \E text \in Concats(CutLines, MaxCutLines) :
    \E source \in Prefixes(text) :
        /\ src = source
        /\ sc \in {ScannerNew(source, TRUE), ScannerNew(source, FALSE)}
        /\ pc = "idle"
        /\ out = << >>
        /\ ret = ""
        /\ nones = 0
        /\ NoEmitter

CutSpec == CutInit /\ [][Next]_vars

\* Verbatim tags `!<...>` of at most MaxUriOctets plain characters and
\* escaped octets: UTF-8 sequences of one, two and three octets, an octet
\* that leads no sequence, and octets with a digit missing or wrong.
MaxUriOctets == 4

UriPieces == {<<"a">>, <<"%", "4", "1">>, <<"%", "c", "3">>, <<"%", "A", "9">>,
              <<"%", "E", "2">>, <<"%", "8", "2">>, <<"%", "F", "F">>,
              <<"%", "4">>, <<"%", "g", "1">>}

UriInit ==
    \E uri \in Concats(UriPieces, MaxUriOctets) \ {<< >>} :
        /\ src = <<"!", "<">> \o uri \o <<">">>
        /\ sc = ScannerNew(src, TRUE)
        /\ pc = "idle"
        /\ out = << >>
        /\ ret = ""
        /\ nones = 0
        /\ NoEmitter

UriSpec == UriInit /\ [][Next]_vars

\* Texts of indicators and plain characters, for the plain scalars.
MaxPlainChunks == 4

PlainPieces == {<<"[">>, <<":">>, <<"?">>, <<"-">>, <<",">>, <<"a">>, <<SP>>,
                <<"\"", "a", "\"">>}

PlainInit ==
    \E source \in Concats(PlainPieces, MaxPlainChunks) :
        /\ src = source
        /\ sc = ScannerNew(source, TRUE)
        /\ pc = "idle"
        /\ out = << >>
        /\ ret = ""
        /\ nones = 0
    /\ NoEmitter

PlainSpec == PlainInit /\ [][Next]_vars

\* ------------------------------------------------------------------------
\* The emitter's caller: YamlEmitter::new over a String, compact, dump
\*   em     the emitter and, in em.writer, the text of its sink
\*   doc    the value handed to the last dump
\*   start  the length of the sink when the last dump began
\*   dumps  how many times dump was called on this emitter
\* ------------------------------------------------------------------------
MaxItems == 3
MaxWraps == 2
MaxDumps == 2

Seqs(S, n) == UNION {[1..k -> S] : k \in 0..n}

KeysDiffer(h) == \A i, j \in 1..Len(h) : i # j => h[i][1] # h[j][1]

Sa == YString(<<"a">>)

Leaves == {YNull, BadValue, YAlias(1), Sa, YBoolean(TRUE), YInteger(12),
           YReal(<<"1", ".", "5">>),
           YComment(<<"c">>, TRUE), YComment(<<"c">>, FALSE)}

ArrayItems == {Sa, YComment(<<"c">>, TRUE), YComment(<<"c">>, FALSE)}

HashEntries == {<<Sa, Sa>>,
                <<YString(<<"b">>), YComment(<<"c">>, FALSE)>>,
                <<YComment(<<"c">>, TRUE), YNull>>,
                <<YComment(<<"c">>, FALSE), YNull>>,
                <<YComment(<<"d">>, TRUE), YNull>>}

\* A hash whose comment key is paired with a hash instead of a null.
Shadowed == YHash(<<<<YComment(<<"c">>, FALSE),
                     YHash(<<<<Sa, YComment(<<"c">>, FALSE)>>>>)>>>>)

Flat == Leaves \cup {Shadowed}
        \cup {YArray(v) : v \in Seqs(ArrayItems, MaxItems)}
        \cup {YHash(v) : v \in {h \in Seqs(HashEntries, MaxItems) : KeysDiffer(h)}}

Wrap(t) == {YArray(<<t>>), YArray(<<Sa, t>>), YHash(<<<<Sa, t>>>>), YHash(<<<<t, Sa>>>>)}

\* t, and t inside arrays and hashes up to n deep.
RECURSIVE Wrapped(_, _)
Wrapped(n, t) ==
    IF n = 0 THEN {t}
    ELSE {t} \cup UNION {Wrapped(n - 1, w) : w \in Wrap(t)}

Redumps == {YArray(<<YArray(<<Sa>>)>>)}

EmitInit ==
    /\ src = << >>
    /\ sc = ScannerNew(<< >>, FALSE)
    /\ pc = "idle"
    /\ out = << >>
    /\ ret = ""
    /\ nones = 0
    /\ NoEmitter

\* The caller drops the emitter and makes another over an empty String.
New ==
    /\ dumps > 0
    /\ em' = YamlEmitterNew
    /\ doc' = YNull
    /\ start' = 0
    /\ dumps' = 0
    /\ UNCHANGED <<sc, pc, out, ret, nones, src>>

\* The caller sets the notation before it dumps, as assert_formatted does.
Compact ==
    /\ dumps = 0
    /\ \E c \in BOOLEAN : em' = compact(em, c)
    /\ UNCHANGED <<doc, start, dumps, sc, pc, out, ret, nones, src>>

\* A call of dump; a caller that caught the panic of the call before may
\* call again.
Dump ==
    /\ dumps < MaxDumps
    /\ \E t \in (IF dumps = 0 THEN Flat ELSE Redumps) :
           \E d \in (IF dumps = 0 THEN Wrapped(MaxWraps, t) ELSE {t}) :
               /\ em' = dump([em EXCEPT !.fail = ""], d)
               /\ doc' = d
    /\ start' = Len(em.writer)
    /\ dumps' = dumps + 1
    /\ UNCHANGED <<sc, pc, out, ret, nones, src>>

EmitNext ==
    \/ New
    \/ Compact
    \/ Dump

EmitSpec == EmitInit /\ [][EmitNext]_vars

\* ------------------------------------------------------------------------
\* The loader (YamlLoader::load_from_str, not part of the emitter or the
\* scanner): the documents of a text are built from the tokens of a Scanner
\* with comments.  Modelled for block sequences and block mappings of
\* scalars and comments: a plain scalar is resolved to Null, Boolean,
\* Integer, Real or String, a quoted one is a String; a Comment token
\* becomes an element of the surrounding container with the token's text,
\* inline when it stands on the line of the token before it.
\* ------------------------------------------------------------------------
RECURSIVE ParseDecimal(_)
ParseDecimal(v) ==
    IF v = << >> THEN 0 ELSE 10 * ParseDecimal(Front(v)) + as_hex(Last(v))

IsDecimal(v) == v # << >> /\ \A i \in 1..Len(v) : v[i] \in Digits

IsRealLiteral(v) ==
    \E k \in 2..(Len(v) - 1) :
        /\ v[k] = "."
        /\ IsDecimal(SubSeq(v, 1, k - 1))
        /\ IsDecimal(SubSeq(v, k + 1, Len(v)))

resolve(tok) ==
    IF tok.style # "Plain" THEN YString(tok.text)
    ELSE IF tok.text \in {<<"~">>, <<"n", "u", "l", "l">>} THEN YNull
    ELSE IF tok.text = <<"t", "r", "u", "e">> THEN YBoolean(TRUE)
    ELSE IF tok.text = <<"f", "a", "l", "s", "e">> THEN YBoolean(FALSE)
    ELSE IF IsDecimal(tok.text) THEN YInteger(ParseDecimal(tok.text))
    ELSE IF IsRealLiteral(tok.text) THEN YReal(tok.text)
    ELSE YString(tok.text)

TypeAt(toks, i) == IF i <= Len(toks) THEN toks[i].type ELSE "StreamEnd"

load_comment(toks, i) ==
    YComment(toks[i].text, i > 1 /\ toks[i - 1].mark.line = toks[i].mark.line)

RECURSIVE load_node(_, _)
RECURSIVE load_sequence(_, _, _)
RECURSIVE load_mapping(_, _, _)

\* The node that begins at token i, and the place of the token after it.
load_node(toks, i) ==
    IF TypeAt(toks, i) = "Scalar" THEN [node |-> resolve(toks[i]), next |-> i + 1]
    ELSE IF TypeAt(toks, i) = "BlockSequenceStart" THEN load_sequence(toks, i + 1, << >>)
    ELSE IF TypeAt(toks, i) = "BlockMappingStart" THEN load_mapping(toks, i + 1, << >>)
    ELSE [node |-> YNull, next |-> i]

load_sequence(toks, i, items) ==
    IF TypeAt(toks, i) = "BlockEntry"
    THEN With(load_node(toks, i + 1), LAMBDA r :
              load_sequence(toks, r.next, Append(items, r.node)))
    ELSE IF TypeAt(toks, i) = "Comment"
    THEN load_sequence(toks, i + 1, Append(items, load_comment(toks, i)))
    ELSE [node |-> YArray(items),
          next |-> IF TypeAt(toks, i) = "BlockEnd" THEN i + 1 ELSE i]

load_mapping(toks, i, items) ==
    IF TypeAt(toks, i) = "Key"
    THEN With(load_node(toks, i + 1), LAMBDA k :
         IF TypeAt(toks, k.next) = "Value"
         THEN With(load_node(toks, k.next + 1), LAMBDA v :
                   load_mapping(toks, v.next, Append(items, <<k.node, v.node>>)))
         ELSE load_mapping(toks, k.next, Append(items, <<k.node, YNull>>)))
    ELSE IF TypeAt(toks, i) = "Comment"
    THEN load_mapping(toks, i + 1, Append(items, <<load_comment(toks, i), YNull>>))
    ELSE [node |-> YHash(items),
          next |-> IF TypeAt(toks, i) = "BlockEnd" THEN i + 1 ELSE i]

\* docs[0] of load_from_str.
load_from_str(text) ==
    With(scan_all(ScannerNew(text, TRUE), << >>), LAMBDA toks :
        load_node(toks, IF TypeAt(toks, 2) = "DocumentStart" THEN 3 ELSE 2).node)

\* ------------------------------------------------------------------------
\* The round trip of assert_roundtrip: a text the emitter wrote is loaded
\* and the document is dumped by a new emitter with the same notation.
\*   src  the text that is loaded        doc  the tree in hand
\*   em   the emitter of the last dump   pc   what the caller does next
\* ------------------------------------------------------------------------
MaxRoundItems == 2

RoundItems == {Sa, YInteger(12), YComment(<<"c">>, TRUE), YComment(<<"c">>, FALSE),
               YComment(<<SP, "c">>, TRUE)}

RoundDocs ==
    {Sa, YInteger(12), YNull, YBoolean(TRUE), YReal(<<"1", ".", "5">>)}
    \cup {YArray(<<Sa>> \o v) : v \in Seqs(RoundItems, MaxRoundItems)}
    \cup {YArray(<<YArray(<<Sa>> \o v)>>) : v \in Seqs(RoundItems, 1)}
    \cup {YHash(<<<<Sa, Sa>>>> \o v) :
              v \in Seqs({<<YString(<<"b">>), YInteger(12)>>,
                          <<YComment(<<"c">>, TRUE), YNull>>,
                          <<YComment(<<"c">>, FALSE), YNull>>}, 1)}

RoundInit ==
    /\ \E d \in RoundDocs, c \in BOOLEAN :
           /\ doc = d
           /\ em = compact(YamlEmitterNew, c)
    /\ pc = "tree"
    /\ src = << >>
    /\ sc = ScannerNew(<< >>, TRUE)
    /\ out = << >>
    /\ ret = ""
    /\ nones = 0
    /\ start = 0
    /\ dumps = 0

\* emitter.dump(doc).unwrap() into a String: the text to load.
Emit ==
    /\ pc = "tree"
    /\ em' = dump(em, doc)
    /\ em'.fail = ""
    /\ src' = em'.writer
    /\ dumps' = dumps + 1
    /\ pc' = "text"
    /\ UNCHANGED <<doc, start, sc, out, ret, nones>>

\* YamlLoader::load_from_str(input).unwrap() and docs[0].
Load ==
    /\ pc = "text"
    /\ doc' = load_from_str(src)
    /\ pc' = "loaded"
    /\ UNCHANGED <<em, src, start, dumps, sc, out, ret, nones>>

\* YamlEmitter::new over an empty String, compact, dump.
Reemit ==
    /\ pc = "loaded"
    /\ em' = dump(compact(YamlEmitterNew, em.compact), doc)
    /\ dumps' = dumps + 1
    /\ pc' = "done"
    /\ UNCHANGED <<doc, src, start, sc, out, ret, nones>>

RoundNext ==
    \/ Emit
    \/ Load
    \/ Reemit

RoundSpec == RoundInit /\ [][RoundNext]_vars

\* The text the last dump wrote.
Written == SubSeq(em.writer, start + 1, Len(em.writer))

Succeeded == dumps > 0 /\ em.fail = ""

\* ------------------------------------------------------------------------
\* Properties
\* ------------------------------------------------------------------------
Types(toks) == [i \in 1..Len(toks) |-> toks[i].type]

\* get_error
get_error(s) == s.error

\* C1: the delivered tokens begin with exactly one StreamStart; StreamEnd is
\* delivered at most once and nothing is delivered after it; when the calls
\* end with None and no ScanError, the last delivered token is StreamEnd.
C1_StreamStartFirstStreamEndLast ==
    /\ out # << >> => out[1].type = "StreamStart"
    /\ \A i \in 2..Len(out) : out[i].type # "StreamStart"
    /\ \A i \in 1..(Len(out) - 1) : out[i].type # "StreamEnd"
    /\ (ret = "None" /\ get_error(sc) = "")
          => (Len(out) >= 2 /\ out[Len(out)].type = "StreamEnd")

\* A second pull after StreamEnd has returned None and nothing was added.
C1_Witness ==
    /\ nones = 2
    /\ get_error(sc) = ""
    /\ Len(out) >= 4
    /\ out[Len(out)].type = "StreamEnd"

\* C2: once an error is stored, every later call of next returns None and
\* leaves the scanner as it is: next_token is not entered, no character is
\* consumed, the queue keeps its tokens and get_error keeps the first error.
C2_ErrorsAreSticky ==
    [][get_error(sc) # ""
         => /\ sc' = sc
            /\ out' = out
            /\ pc' = "idle"
            /\ ret' = "None"]_vars

\* Two calls have returned None after an error that left tokens in the
\* queue and characters in the source.
C2_Witness ==
    /\ get_error(sc) # ""
    /\ nones = 2
    /\ sc.tokens # << >>
    /\ sc.buffer \o sc.rdr # << >>
    /\ \E i \in 1..Len(sc.buffer) : sc.buffer[i] # NUL

\* Counting over the first n tokens of a sequence.
CountOf(toks, n, types) == Cardinality({i \in 1..n : toks[i].type \in types})

BlockOpeners == {"BlockSequenceStart", "BlockMappingStart"}

\* Block collections open after the first n tokens.
BlockDepth(toks, n) == CountOf(toks, n, BlockOpeners) - CountOf(toks, n, {"BlockEnd"})

FlowStarts == {"FlowSequenceStart", "FlowMappingStart"}

FlowEnds == {"FlowSequenceEnd", "FlowMappingEnd"}

RECURSIVE FlowOpen(_, _)
\* Flow collections open after the first n tokens, an end token at depth 0
\* counting for nothing.
FlowOpen(toks, n) ==
    IF n = 0 THEN 0
    ELSE IF toks[n].type \in FlowStarts THEN FlowOpen(toks, n - 1) + 1
    ELSE IF toks[n].type \in FlowEnds /\ FlowOpen(toks, n - 1) > 0
         THEN FlowOpen(toks, n - 1) - 1
    ELSE FlowOpen(toks, n - 1)

Tokenized == ret = "None" /\ get_error(sc) = ""

\* C3 as stated: after an input has tokenized without error, the block
\* openers and the BlockEnd tokens delivered nest like brackets and every
\* block is closed at each DocumentEnd and at StreamEnd.
C3_Original ==
    Tokenized =>
        \A i \in 1..Len(out) :
            /\ BlockDepth(out, i) >= 0
            /\ out[i].type \in {"DocumentEnd", "StreamEnd"} => BlockDepth(out, i) = 0

\* C3 amended: a BlockEnd always closes a block opened before it, the
\* blocks open in the delivered and queued tokens are those of the indent
\* stack, and at a DocumentEnd or StreamEnd that is reached with no flow
\* collection open every block has been closed by exactly one BlockEnd.
C3_BlocksClosedOutsideFlow ==
    /\ \A i \in 1..Len(out) :
           /\ BlockDepth(out, i) >= 0
           /\ (out[i].type \in {"DocumentEnd", "StreamEnd"} /\ FlowOpen(out, i) = 0)
                 => BlockDepth(out, i) = 0
    /\ pc # "panic"
          => BlockDepth(out \o sc.tokens, Len(out) + Len(sc.tokens)) = Len(sc.indents)

\* A nested block sequence and mapping have been closed at StreamEnd.
C3_Witness ==
    /\ Tokenized
    /\ CountOf(out, Len(out), {"BlockSequenceStart"}) >= 1
    /\ CountOf(out, Len(out), {"BlockMappingStart"}) >= 1
    /\ CountOf(out, Len(out), {"BlockEnd"}) >= 2
    /\ out[Len(out)].type = "StreamEnd"

RECURSIVE FlowStack(_, _)
\* The kinds of the flow collections open after the first n tokens, each end
\* token closing the innermost one; <<"unpaired">> once an end token has
\* met no open collection or one of the other kind.
FlowStack(toks, n) ==
    IF n = 0 THEN << >>
    ELSE With(FlowStack(toks, n - 1), LAMBDA st :
             IF st = <<"unpaired">> THEN st
             ELSE IF toks[n].type = "FlowSequenceStart" THEN Append(st, "Sequence")
             ELSE IF toks[n].type = "FlowMappingStart" THEN Append(st, "Mapping")
             ELSE IF toks[n].type \in FlowEnds
             THEN IF st # << >>
                     /\ (toks[n].type = "FlowSequenceEnd") = (Last(st) = "Sequence")
                  THEN Front(st)
                  ELSE <<"unpaired">>
             ELSE st)

\* C4 as stated: after an input has tokenized without error every flow
\* start has been closed by the end token of its kind, no end token came
\* without an open collection, and flow_level is 0.
C4_Original ==
    Tokenized => (FlowStack(out, Len(out)) = << >> /\ sc.flow_level = 0)

\* C4 amended: flow_level is the number of flow starts fetched so far less
\* the flow end tokens that found a collection open, whatever their kind;
\* an end token at level 0 is produced and changes nothing, and StreamEnd
\* is produced with the level the unclosed collections have left.
C4_FlowLevelCountsOpenCollections ==
    pc # "panic"
        => sc.flow_level = FlowOpen(out \o sc.tokens, Len(out) + Len(sc.tokens))

\* An end token without a collection, a collection closed, and a collection
\* still open when StreamEnd has been delivered.
C4_Witness ==
    /\ Tokenized
    /\ sc.flow_level >= 1
    /\ \E i \in 1..Len(out) : out[i].type \in FlowEnds /\ FlowOpen(out, i - 1) = 0
    /\ \E i \in 1..Len(out) : out[i].type \in FlowEnds /\ FlowOpen(out, i - 1) >= 1

RECURSIVE KeyBefore(_, _, _)
\* Going back from token n: a Key is met in the mapping the next token
\* belongs to before that mapping's opener or its previous Value; depth
\* counts the nested collections being crossed backwards.
KeyBefore(toks, n, depth) ==
    IF n = 0 THEN FALSE
    ELSE IF toks[n].type \in {"BlockEnd"} \cup FlowEnds
    THEN KeyBefore(toks, n - 1, depth + 1)
    ELSE IF toks[n].type \in BlockOpeners \cup FlowStarts
    THEN depth > 0 /\ KeyBefore(toks, n - 1, depth - 1)
    ELSE IF depth = 0 /\ toks[n].type = "Key" THEN TRUE
    ELSE IF depth = 0 /\ toks[n].type = "Value" THEN FALSE
    ELSE KeyBefore(toks, n - 1, depth)

\* C5 as stated: every Value delivered in block context has a Key of its
\* own delivered before it.
C5_Original ==
    \A i \in 1..Len(out) :
        (out[i].type = "Value" /\ FlowOpen(out, i) = 0) => KeyBefore(out, i - 1, 0)

\* C5 amended: a Value fetched at flow_level 0 while the simple-key slot is
\* possible has a Key of its own before it; a Value fetched while the slot
\* is not possible gets no Key from the scanner, so it has one only if a
\* `?` produced it.
C5_ValueKeyedWhenSlotPossible ==
    [][(pc = "fetch" /\ FetchesValue(sc) /\ sc.flow_level = 0)
         => LET keyed(s3, before, after) ==
                    /\ after[Len(after)].type = "Value"
                    /\ IF Last(s3.simple_keys).possible
                       THEN KeyBefore(after, Len(after) - 1, 0)
                       ELSE CountOf(after, Len(after), {"Key"})
                                = CountOf(before, Len(before), {"Key"})
            IN keyed(token_start(sc), out \o sc.tokens, out \o sc'.tokens)]_vars

\* Two Values were delivered in block context, one with a Key of its own
\* and one with none.
C5_Witness ==
    /\ \E i \in 1..Len(out) :
           out[i].type = "Value" /\ FlowOpen(out, i) = 0 /\ KeyBefore(out, i - 1, 0)
    /\ \E i \in 1..Len(out) :
           out[i].type = "Value" /\ FlowOpen(out, i) = 0 /\ ~KeyBefore(out, i - 1, 0)

\* The queue fetch_value leaves when it is entered in s3 with a possible
\* simple key at queue position pos, as C6 describes it.
QueueWithKey(s3, sk, pos) ==
    SubSeq(s3.tokens, 1, pos)
    \o (IF s3.flow_level = 0 /\ sk.mark.col > s3.indent
        THEN <<Token(s3.mark, "BlockMappingStart")>>
        ELSE << >>)
    \o <<Token(sk.mark, "Key")>>
    \o SubSeq(s3.tokens, pos + 1, Len(s3.tokens))
    \o <<Token(s3.mark, "Value")>>

\* C6: when ':' is fetched while the last simple-key slot is possible, the
\* Key is inserted right before the key's first token, at queue position
\* token_number - tokens_parsed, in block context a BlockMappingStart right
\* before that Key if the key's column is greater than indent, the Value
\* goes to the back and the slot is no longer possible.
C6_KeyInsertedBeforeFirstToken ==
    [][(pc = "fetch" /\ FetchesValue(sc) /\ Last(token_start(sc).simple_keys).possible)
         => LET inserted(s3, sk, pos) ==
                    /\ pos \in 0..(Len(s3.tokens) - 1)
                    /\ s3.tokens[pos + 1].mark = sk.mark
                    /\ sc'.tokens = QueueWithKey(s3, sk, pos)
                    /\ ~Last(sc'.simple_keys).possible
                inserted_at(s3, sk) ==
                    inserted(s3, sk, sk.token_number - s3.tokens_parsed)
            IN inserted_at(token_start(sc), Last(token_start(sc).simple_keys))]_vars

\* A Key and its BlockMappingStart have been inserted before a queued
\* scalar and the Value queued behind it.
C6_Witness ==
    /\ Len(sc.tokens) >= 4
    /\ sc.tokens[1].type = "BlockMappingStart"
    /\ sc.tokens[2].type = "Key"
    /\ sc.tokens[1].mark # sc.tokens[2].mark
    /\ sc.tokens[2].mark = sc.tokens[3].mark
    /\ Last(sc.tokens).type = "Value"
    /\ ~Last(sc.simple_keys).possible

\* C7: next_token pops the head of the queue only when the queue is not
\* empty and no simple-key slot is possible with token_number equal to
\* tokens_parsed; while the queue is empty or such a slot exists the loop
\* of fetch_more_tokens goes on to fetch_next_token and does not leave for
\* the pop.
C7_NoTokenDeliveredEarly ==
    [][/\ pc = "pop" => (sc.tokens # << >> /\ ~KeyPending(sc))
       /\ (pc = "fetch" /\ (sc.tokens = << >> \/ KeyPending(need_more_tokens(sc).s)))
             => pc' # "pop"]_vars

\* The loop went on past a pending simple key until its Key and
\* BlockMappingStart were in the queue, and the head is about to be popped.
C7_Witness ==
    /\ pc = "pop"
    /\ Len(sc.tokens) >= 4
    /\ sc.tokens[1].type = "BlockMappingStart"
    /\ sc.tokens[2].type = "Key"
    /\ sc.tokens_parsed >= 1

\* C8: the calls of next reach None, and every call of fetch_next_token
\* made by the loop of fetch_more_tokens consumes a character, queues a
\* token or fails.
C8_NextReachesNone ==
    /\ <>(ret = "None")
    /\ [][(pc = "fetch" /\ need_more_tokens(sc).need_more)
            => \/ sc'.mark.index > sc.mark.index
               \/ Len(sc'.tokens) > Len(sc.tokens)
               \/ get_error(sc') # ""
               \/ pc' = "panic"]_vars

\* None was returned after the loop had fetched past a simple key.
C8_Witness ==
    /\ ret = "None"
    /\ nones = 1
    /\ Len(out) >= 6
    /\ \E i \in 1..Len(out) : out[i].type = "Key"

\* The text with each "\n" replaced by the line break brk.
ReplaceBreaks(text, brk) ==
    Flatten([i \in 1..Len(text) |-> IF text[i] = LF THEN brk ELSE <<text[i]>>])

\* The kinds of the tokens and the texts of the scalars.
KindsAndScalars(toks) ==
    [i \in 1..Len(toks) |->
        <<toks[i].type, IF toks[i].type = "Scalar" THEN toks[i].text ELSE << >>>>]

\* The kinds and scalar texts delivered for the text with brk for "\n".
DeliveredWith(brk) ==
    KindsAndScalars(scan_all(ScannerNew(ReplaceBreaks(src, brk), sc.with_comments),
                             << >>))

\* C9: once all tokens of a text have been delivered, the same text with
\* "\r\n" or with a lone "\r" for each "\n" delivers the same token
\* kinds and scalar texts.
C9_LineEndingsEquivalent ==
    ret = "None" => \A brk \in {<<CR, LF>>, <<CR>>} :
                       KindsAndScalars(out) = DeliveredWith(brk)

RECURSIVE UpToBreak(_)
\* The characters before the first line break or the end of the text.
UpToBreak(text) ==
    IF text = << >> \/ is_breakz(Head(text))
    THEN << >>
    ELSE <<Head(text)>> \o UpToBreak(Tail(text))

RECURSIVE DropLeading(_, _)
\* The text without its leading run of the characters of set.
DropLeading(text, set) ==
    IF text # << >> /\ Head(text) \in set THEN DropLeading(Tail(text), set) ELSE text

\* The text without one leading space, if it has one.
DropOneSpace(text) ==
    IF text # << >> /\ Head(text) = SP THEN Tail(text) ELSE text

\* The rest of the line at the scanner's position.
RestOfLine(s) == UpToBreak(s.buffer \o s.rdr)

\* A Comment token with this text was queued for the line at s3, the line
\* was consumed and its line break or the end of input was not.
CommentQueued(s3, text) ==
    /\ Len(sc'.tokens) = Len(s3.tokens) + 1
    /\ Last(sc'.tokens) = TextToken(s3.mark, "Comment", text)
    /\ sc'.mark.index = s3.mark.index + Len(RestOfLine(s3))
    /\ is_breakz(ch(sc'))

IndicatorAt(s, c) ==
    /\ s.mark.col = 0
    /\ buf(s, 0) = c /\ buf(s, 1) = c /\ buf(s, 2) = c
    /\ is_blankz(buf(s, 3))

DocumentTokens == {"DocumentStart", "DocumentEnd"}

\* The queue q with n BlockEnd tokens and the token of kind t behind it.
QueueWithDocument(q, mark, n, t) ==
    q \o [i \in 1..n |-> Token(mark, "BlockEnd")] \o <<Token(mark, t)>>

\* What this turn of the loop does at the token that starts at s3, given
\* the number of BlockEnd tokens an indicator is to be preceded by.
DocumentIndicatorFetched(s3, n) ==
    IF IndicatorAt(s3, "-") \/ IndicatorAt(s3, ".")
    THEN /\ sc'.tokens = QueueWithDocument(sc.tokens, s3.mark, n,
                              IF buf(s3, 0) = "-" THEN "DocumentStart"
                                                  ELSE "DocumentEnd")
         /\ ~sc'.simple_key_allowed
         /\ sc'.mark.index = s3.mark.index + 3
    ELSE \A i \in (Len(sc.tokens) + 1)..Len(sc'.tokens) :
             sc'.tokens[i].type \notin DocumentTokens

\* C11 as stated: `---` or `...` at column 0 before a blank, a line break
\* or the end of input queues DocumentStart or DocumentEnd behind one
\* BlockEnd for every open indent and disallows simple keys; anywhere else
\* no document token is queued.
C11_Original ==
    [][(pc = "fetch" /\ FetchesToken(sc))
         => LET fetched(s3) == DocumentIndicatorFetched(s3, Len(sc.indents))
            IN fetched(token_start(sc))]_vars

\* C11 amended: the BlockEnd tokens are queued in block context only; with
\* a flow collection open the document token is queued with none and the
\* indents stay open.
C11_DocumentIndicatorAtColumnZero ==
    [][(pc = "fetch" /\ FetchesToken(sc))
         => LET fetched(s3) ==
                    DocumentIndicatorFetched(
                        s3, IF s3.flow_level = 0 THEN Len(sc.indents) ELSE 0)
            IN fetched(token_start(sc))]_vars

\* A document token has been queued behind the BlockEnd of an open block.
C11_Witness ==
    /\ Len(sc.tokens) >= 2
    /\ Last(sc.tokens).type \in DocumentTokens
    /\ sc.tokens[Len(sc.tokens) - 1].type = "BlockEnd"
    /\ ~sc.simple_key_allowed

\* ------------------------------------------------------------------------
\* C12: what ends a plain scalar, and what begins one

\* The i-th character ahead of the scanner, NUL past the end of the input.
Ahead(s, i) ==
    IF i < Len(s.buffer)
    THEN s.buffer[i + 1]
    ELSE IF i - Len(s.buffer) < Len(s.rdr)
         THEN s.rdr[i - Len(s.buffer) + 1]
         ELSE NUL

\* The character i ahead ends a plain scalar: a blank, a line break, the end
\* of the input, `:` before one of these, and in flow context `:` before a
\* flow indicator and the flow indicators themselves.
EndsPlain(s, i) ==
    \/ is_blankz(Ahead(s, i))
    \/ /\ Ahead(s, i) = ":"
       /\ \/ is_blankz(Ahead(s, i + 1))
          \/ (s.flow_level > 0 /\ is_flow(Ahead(s, i + 1)))
    \/ (s.flow_level > 0 /\ Ahead(s, i) \in {",", "[", "]", "{", "}"})

RECURSIVE WordLen(_, _)
\* How many characters ahead of the scanner come before the first one that
\* ends a plain scalar.
WordLen(s, i) == IF EndsPlain(s, i) THEN i ELSE WordLen(s, i + 1)

Word(s) == [i \in 1..WordLen(s, 0) |-> Ahead(s, i - 1)]

\* The fetch has queued a plain scalar that starts where the token starts.
PlainFetched(s3) ==
    /\ Len(sc'.tokens) = Len(s3.tokens) + 1
    /\ Last(sc'.tokens).type = "Scalar"
    /\ Last(sc'.tokens).style = "Plain"
    /\ Last(sc'.tokens).mark = s3.mark

\* The plain scalar holds the characters up to the first one that ends it; it
\* goes on after that one only over blanks and line breaks.
PlainEndsAtIndicator(s3) ==
    PlainFetched(s3) =>
        LET n == WordLen(s3, 0)
            text == Last(sc'.tokens).text
        IN  /\ Len(text) >= n
            /\ SubSeq(text, 1, n) = Word(s3)
            /\ sc'.mark.index >= s3.mark.index + n
            /\ IF is_blank(Ahead(s3, n)) \/ is_break(Ahead(s3, n))
               THEN Len(text) > n => text[n + 1] \in {SP, LF}
               ELSE Len(text) = n /\ sc'.mark.index = s3.mark.index + n

LeadingIndicator(s3) ==
    /\ Ahead(s3, 0) \in {":", "?", "-"}
    /\ ~is_blankz(Ahead(s3, 1))

\* `:` taken as the value indicator of a flow mapping although a non-blank
\* character follows it.
AdjacentValue(s3) ==
    /\ Ahead(s3, 0) = ":"
    /\ s3.flow_level > 0
    /\ (is_flow(Ahead(s3, 1)) \/ s3.mark.index = s3.adjacent_value_allowed_at)

LeadsPlainScalar(s3) ==
    PlainFetched(s3) /\ Head(Last(sc'.tokens).text) = Ahead(s3, 0)

\* C12 as stated: a plain scalar ends at `:` only before a blank, a line
\* break, the end of input or (in flow context) a flow indicator, and at
\* `,[]{}` only in flow context; every leading `:`, `?` or `-` followed by a
\* non-blank character is fetched as the start of a plain scalar.
C12_Original ==
    [][(pc = "fetch" /\ FetchesToken(sc))
         => LET fetched(s3) ==
                    /\ PlainEndsAtIndicator(s3)
                    /\ LeadingIndicator(s3) => LeadsPlainScalar(s3)
            IN fetched(token_start(sc))]_vars

\* C12 amended: the same, but a leading `:`, `?` or `-` followed by a
\* non-blank character starts a plain scalar unless it opens a document
\* indicator at column 0 or is, in flow context, a `:` followed by a flow
\* indicator or placed right after a quoted scalar.
C12_PlainScalarEnds ==
    [][(pc = "fetch" /\ FetchesToken(sc))
         => LET fetched(s3) ==
                    /\ PlainEndsAtIndicator(s3)
                    /\ (LeadingIndicator(s3) /\ ~IsDocumentIndicator(s3) /\ ~AdjacentValue(s3))
                           => LeadsPlainScalar(s3)
            IN fetched(token_start(sc))]_vars

\* A plain scalar that begins with `:` and was ended by a flow indicator.
C12_Witness ==
    /\ sc.flow_level > 0
    /\ sc.tokens # << >>
    /\ Last(sc.tokens).type = "Scalar"
    /\ Last(sc.tokens).style = "Plain"
    /\ Len(Last(sc.tokens).text) >= 2
    /\ Head(Last(sc.tokens).text) = ":"
    /\ ch(sc) = ","

\* ------------------------------------------------------------------------
\* C13: the line of the document marker
FirstChild(d) == IF d.kind = "Array" THEN d.items[1] ELSE d.items[1][1]

LeadsWithComment(d) ==
    /\ d.kind \in {"Array", "Hash"}
    /\ d.items # << >>
    /\ is_comment(FirstChild(d))

LeadsWithInlineComment(d) == LeadsWithComment(d) /\ FirstChild(d).flag

StartsWith(t, p) == Len(t) >= Len(p) /\ SubSeq(t, 1, Len(p)) = p

DocumentMarker == <<"-", "-", "-">>

MarkerLine(d) ==
    DocumentMarker
    \o (IF LeadsWithInlineComment(d) THEN <<SP, "#">> \o FirstChild(d).text ELSE << >>)
    \o <<LF>>

RECURSIVE CommentsIn(_)
RECURSIVE CommentsAmong(_)
\* How many Comment values a value holds.
CommentsIn(d) ==
    IF is_comment(d) THEN 1
    ELSE IF d.kind = "Array" THEN CommentsAmong(d.items)
    ELSE IF d.kind = "Hash"
    THEN CommentsAmong([i \in 1..Len(d.items) |-> d.items[i][1]])
         + CommentsAmong([i \in 1..Len(d.items) |-> d.items[i][2]])
    ELSE 0

CommentsAmong(ds) ==
    IF ds = << >> THEN 0 ELSE CommentsIn(Head(ds)) + CommentsAmong(Tail(ds))

HashSigns(t) == Cardinality({i \in 1..Len(t) : t[i] = "#"})

\* C13: a successful dump begins with the line `---`, which also holds the
\* inline comment that is the first child of a root array or hash (a space,
\* then the comment); that comment is written once.
C13_MarkerLineTakesInlineComment ==
    Succeeded =>
        /\ StartsWith(Written, MarkerLine(doc))
        /\ LeadsWithInlineComment(doc) => HashSigns(Written) = CommentsIn(doc)

\* ------------------------------------------------------------------------
\* C14: the text written by a successful dump does not end with a line
\* break.
C14_NoTrailingLineBreak ==
    Succeeded => (Written # << >> /\ Last(Written) # LF)

\* ------------------------------------------------------------------------
\* C20: for Null, for BadValue and for Alias emit_node writes `~`: the dump
\* of such a root is the marker line and `~`.
C20_TildeForNullBadValueAlias ==
    (Succeeded /\ doc.kind \in {"Null", "BadValue", "Alias"})
        => Written = DocumentMarker \o <<LF, "~">>

\* ------------------------------------------------------------------------
\* C15: where comments are written
\* The comments the last dump has written, as the debug macro saw them.
CommentsWritten ==
    {k \in 1..Len(em.stdout) :
        /\ em.stdout[k].at >= start
        /\ em.stdout[k].msg # "should never emit comment as value"}

\* The part of the line of place p that is written before p.
LineBefore(t, p) ==
    SubSeq(t, (CHOOSE b \in 0..p : (b = 0 \/ t[b] = LF) /\ \A i \in (b + 1)..p : t[i] # LF) + 1, p)

IsWrittenAt(t, p, text) ==
    /\ Len(t) >= p + Len(text)
    /\ SubSeq(t, p + 1, p + Len(text)) = text
    /\ (Len(t) = p + Len(text) \/ t[p + Len(text) + 1] = LF)

\* An inline comment that has an element before it in its container ends
\* the line of that element.
InlineCommentPlaced(n) ==
    /\ IsWrittenAt(em.writer, n.at, <<SP, "#">> \o n.opt.text)
    /\ n.first \/ \E i \in 1..Len(LineBefore(em.writer, n.at)) :
                      LineBefore(em.writer, n.at)[i] # SP

\* Any other comment has a line of its own.
OwnLineCommentPlaced(n) ==
    /\ IsWrittenAt(em.writer, n.at, <<"#">> \o n.opt.text)
    /\ \A i \in 1..Len(LineBefore(em.writer, n.at)) : LineBefore(em.writer, n.at)[i] = SP

\* C15: in the text of a successful dump every Comment with inline = true
\* stands, as ` #text`, on the line of the element before it in its
\* container, and every Comment with inline = false stands, as `#text`, on
\* a line of its own.
C15_CommentsPlacedByInline ==
    Succeeded =>
        \A k \in CommentsWritten :
            IF em.stdout[k].opt.flag
            THEN InlineCommentPlaced(em.stdout[k])
            ELSE OwnLineCommentPlaced(em.stdout[k])

\* ------------------------------------------------------------------------
\* C16: the loops of emit_array and emit_hash skip a Comment that is the
\* first child of the container they iterate: no comment is emitted by a
\* loop as its first entry.
C16_LeadingCommentSkipped ==
    Succeeded => \A k \in CommentsWritten : ~em.stdout[k].first

\* ------------------------------------------------------------------------
\* C18 and C17: values in value position, and the entries of a hash
IsContainer(v) == v.kind \in {"Array", "Hash"}

\* What a dump in the notation c writes for v after the marker line.
Body(c, v) ==
    With(dump(compact(YamlEmitterNew, c), v).writer, LAMBDA w : SubSeq(w, 5, Len(w)))

\* The text t with every line after the first moved one level deeper.
Deeper(t) == Flatten([i \in 1..Len(t) |-> IF t[i] = LF THEN <<LF, SP, SP>> ELSE <<t[i]>>])

\* The text of v in value position at level 0, as C18 describes it.
ValuePosition(c, inline, v) ==
    IF ~IsContainer(v) THEN <<SP>> \o Body(c, v)
    ELSE IF v.items = << >>
    THEN IF v.kind = "Array" THEN <<SP, "[", "]">> ELSE <<SP, "{", "}">>
    ELSE IF inline /\ c
    THEN <<SP>> \o Deeper(Body(c, v))
    ELSE <<LF, SP, SP>> \o Deeper(Body(c, v))

OneEntry(d) == IsContainer(d) /\ Len(d.items) = 1

\* C18: a non-empty array or hash in value position follows a single space
\* exactly when inline and compact are both true, and otherwise a line break
\* and the indentation of one level more; an empty one is ` []` or ` {}`
\* whatever inline and compact are.  The entry of an array is written with
\* inline = true, the value of a scalar key with inline = false.
C18_ValuePosition ==
    (Succeeded /\ dumps = 1 /\ OneEntry(doc)) =>
        /\ (doc.kind = "Array" /\ ~is_comment(doc.items[1]))
               => Written = DocumentMarker \o <<LF, "-">>
                            \o ValuePosition(em.compact, TRUE, doc.items[1])
        /\ (doc.kind = "Hash" /\ ~is_comment(doc.items[1][1]) /\ ~IsContainer(doc.items[1][1]))
               => Written = DocumentMarker \o <<LF>> \o Body(em.compact, doc.items[1][1])
                            \o <<":">> \o ValuePosition(em.compact, FALSE, doc.items[1][2])

\* A non-empty array as the value of a scalar key, written in the compact
\* notation on the lines after the key.
C18_Witness ==
    /\ Succeeded
    /\ dumps = 1
    /\ em.compact
    /\ doc = YHash(<<<<Sa, YArray(<<YArray(<<Sa>>)>>)>>>>)
    /\ Written = DocumentMarker \o <<LF, "a", ":", LF, SP, SP, "-", SP, "-", SP, "a">>

\* The text of one entry of a root hash, as C17 describes it.
EntryText(c, key, value) ==
    IF IsContainer(key)
    THEN <<"?">> \o ValuePosition(c, TRUE, key) \o <<LF, ":">> \o ValuePosition(c, TRUE, value)
    ELSE Body(c, key) \o <<":">> \o ValuePosition(c, FALSE, value)

RECURSIVE EntriesText(_, _)
EntriesText(c, h) ==
    IF h = << >> THEN << >>
    ELSE EntryText(c, h[1][1], h[1][2])
         \o (IF Len(h) = 1 THEN << >> ELSE <<LF>> \o EntriesText(c, Tail(h)))

NoCommentKey(h) == \A i \in 1..Len(h) : ~is_comment(h[i][1])

\* C17: an entry of a hash whose key is an array or a hash, empty or not, is
\* `?`, the key in value position, a line break at the indentation of the
\* hash, `:` and the value in value position; an entry with any other key
\* that is no comment is the key, `:` and the value in value position with
\* inline = false.
C17_HashEntries ==
    (Succeeded /\ dumps = 1 /\ doc.kind = "Hash" /\ doc.items # << >> /\ NoCommentKey(doc.items))
        => Written = DocumentMarker \o <<LF>> \o EntriesText(em.compact, doc.items)

\* A hash whose key is an empty array.
C17_Witness ==
    /\ Succeeded
    /\ dumps = 1
    /\ doc = YHash(<<<<YArray(<< >>), Sa>>>>)
    /\ Written = DocumentMarker \o <<LF, "?", SP, "[", "]", LF, ":", SP, "a">>

\* ------------------------------------------------------------------------
\* C19: the indentation of the lines, and the level around a dump
\* The lines the last dump began inside a container.
LinesBegun == {k \in 1..Len(em.lines) : em.lines[k].at >= start}

\* The line begun at place p starts with exactly n spaces.
StartsWithSpaces(t, p, n) ==
    /\ p >= 1
    /\ t[p] = LF
    /\ Len(t) >= p + n
    /\ \A i \in (p + 1)..(p + n) : t[i] = SP
    /\ Len(t) > p + n => t[p + n + 1] # SP

\* C19: every line begun inside a container starts with exactly
\* 2 x level spaces, level being the depth of the container iterated (0 for
\* the root container); level is -1 when a dump has returned successfully.
C19_LinesIndentedByLevel ==
    Succeeded =>
        /\ em.level = -1
        /\ \A k \in LinesBegun :
               /\ em.lines[k].level >= 0
               /\ StartsWithSpaces(em.writer, em.lines[k].at, 2 * em.lines[k].level)

\* ------------------------------------------------------------------------
\* C21: a Comment in value position
\* ------------------------------------------------------------------------
\* The tree holds, at any depth, a hash entry with a key that is no Comment
\* and a value that is one.
RECURSIVE HasCommentValue(_)
HasCommentValue(d) ==
    \/ /\ d.kind = "Array"
       /\ \E i \in 1..Len(d.items) : HasCommentValue(d.items[i])
    \/ /\ d.kind = "Hash"
       /\ \E i \in 1..Len(d.items) :
              \/ ~is_comment(d.items[i][1]) /\ is_comment(d.items[i][2])
              \/ HasCommentValue(d.items[i][1])
              \/ HasCommentValue(d.items[i][2])

\* The same, leaving out what is paired with a Comment key: emit_hash writes
\* the key of such an entry and never looks at its value.
RECURSIVE EmitsCommentValue(_)
EmitsCommentValue(d) ==
    \/ /\ d.kind = "Array"
       /\ \E i \in 1..Len(d.items) : EmitsCommentValue(d.items[i])
    \/ /\ d.kind = "Hash"
       /\ \E i \in 1..Len(d.items) :
              /\ ~is_comment(d.items[i][1])
              /\ \/ is_comment(d.items[i][2])
                 \/ EmitsCommentValue(d.items[i][1])
                 \/ EmitsCommentValue(d.items[i][2])

\* dump ended in the panic of emit_value: the last thing printed is the
\* message of debug_comment_disallowed!, and the sink ends with the ':' of
\* the entry, nothing of the comment after it.
AbortedAtValue ==
    /\ em.fail = "panic: DEBUG-COMMENT-DISALLOWED"
    /\ em.stdout # << >>
    /\ Last(em.stdout).msg = "should never emit comment as value"
    /\ is_comment(Last(em.stdout).opt)
    /\ Last(em.stdout).at = Len(em.writer)
    /\ Last(em.writer) = ":"

\* C21 as stated: dump of every tree that holds a Comment as the value of a
\* hash entry with a non-comment key ends in the panic of emit_value, and
\* dump of every other tree, Comments as array entries and as hash keys
\* included, completes.
C21_Original ==
    dumps > 0 =>
        IF HasCommentValue(doc) THEN AbortedAtValue ELSE em.fail = ""

\* C21: dump ends in the panic of emit_value, with the ':' of the entry the
\* last thing written, exactly when the tree holds a hash entry with a
\* non-comment key and a Comment value outside what is paired with a Comment
\* key; dump of every other tree, Comments as array entries and as hash keys
\* included, completes without error.
C21_CommentValueAborts ==
    dumps > 0 =>
        IF EmitsCommentValue(doc) THEN AbortedAtValue ELSE em.fail = ""

\* A dump that met a Comment value below an array entry Comment it wrote.
C21_Witness ==
    /\ dumps > 0
    /\ EmitsCommentValue(doc)
    /\ AbortedAtValue
    /\ \E i \in 1..Len(em.stdout) :
           /\ em.stdout[i].at >= start
           /\ em.stdout[i].msg = "emitting comment inside hash (as key)"

\* ------------------------------------------------------------------------
\* C22: dump writes to the sink only
\* ------------------------------------------------------------------------
\* C22: a call of dump, whatever the tree, leaves the standard output of the
\* process as it was: nothing is printed besides the text written to the
\* sink.
C22_DumpWritesOnlyToSink ==
    [][dumps' = dumps + 1 => em'.stdout = em.stdout]_vars

\* ------------------------------------------------------------------------
\* C23: the round trip of emitted text
\* ------------------------------------------------------------------------
\* C23: the tree loaded from a text the emitter wrote is dumped, with the
\* same compact setting, as that very text.
C23_RoundTripIdentical ==
    pc = "done" => em.fail = "" /\ em.writer = src

\* ------------------------------------------------------------------------
\* C24: stale simple keys
\* ------------------------------------------------------------------------
\* The scanners this turn of the loop of fetch_more_tokens hands to
\* stale_simple_keys: in need_more_tokens when the queue is not empty, and
\* in fetch_next_token after the whitespace is skipped.
StaleCalls(s) ==
    (IF s.tokens # << >> THEN {s} ELSE {})
    \cup With(need_more_tokens(s), LAMBDA n :
             IF ~Failed(n.s) /\ n.need_more /\ n.s.stream_start_produced
             THEN {skip_to_next_token(lookahead(lookahead(n.s, 1), 1))}
             ELSE {})

\* The slot's mark is on an earlier line than the current mark or more than
\* 1024 index positions behind it.
Behind(s, sk) ==
    \/ sk.mark.line < s.mark.line
    \/ s.mark.index - sk.mark.index > SimpleKeyReach

Cleared(sk) == [sk EXCEPT !.possible = FALSE]

\* r is s with the slots of `old` cleared, or the error of a required slot
\* among `bad`; in both cases the slots outside `old` are as they were.
AgedOut(s, r, old, bad) ==
    /\ Len(r.simple_keys) = Len(s.simple_keys)
    /\ \A i \in 1..Len(s.simple_keys) :
           i \notin old => r.simple_keys[i] = s.simple_keys[i]
    /\ IF bad # {}
       THEN r.fail = "simple key expect ':'"
       ELSE /\ r = [s EXCEPT !.simple_keys = r.simple_keys]
            /\ \A i \in old : r.simple_keys[i] = Cleared(s.simple_keys[i])

BehindSlots(s) == {i \in 1..Len(s.simple_keys) : Behind(s, s.simple_keys[i])}

RequiredSlots(s) == {i \in 1..Len(s.simple_keys) : s.simple_keys[i].required}

PossibleSlots(s) == {i \in 1..Len(s.simple_keys) : s.simple_keys[i].possible}

\* C24 as stated: stale_simple_keys clears every slot whose mark is behind,
\* fails instead when a slot that is behind is required, and leaves the
\* other slots unchanged.
C24_Original ==
    [][pc = "fetch" =>
          \A s \in StaleCalls(sc) :
              AgedOut(s, stale_simple_keys(s), BehindSlots(s),
                      BehindSlots(s) \cap RequiredSlots(s))]_vars

\* C24: stale_simple_keys clears possible on every possible slot whose mark
\* is on an earlier line than the current mark or more than 1024 index
\* positions behind it, fails with `simple key expect ':'` instead when such
\* a possible slot is required, and leaves every other slot, and on success
\* everything else of the scanner, unchanged.
C24_StaleKeysAgedOut ==
    [][pc = "fetch" =>
          \A s \in StaleCalls(sc) :
              AgedOut(s, stale_simple_keys(s), BehindSlots(s) \cap PossibleSlots(s),
                      BehindSlots(s) \cap PossibleSlots(s) \cap RequiredSlots(s))]_vars

\* A possible key is aged out on its own line: the ':' of a one-line flow
\* sequence comes more than 1024 characters after its '['.
C24_Witness ==
    /\ pc = "fetch"
    /\ \E s \in StaleCalls(sc) :
           /\ ch(s) = ":"
           /\ \E i \in PossibleSlots(s) :
                  /\ s.simple_keys[i].mark.line = s.mark.line
                  /\ s.mark.index - s.simple_keys[i].mark.index = SimpleKeyReach + 1
           /\ PossibleSlots(stale_simple_keys(s)) = {}

\* ------------------------------------------------------------------------
\* C25: saving and removing a simple key
\* ------------------------------------------------------------------------
\* The token at hand begins with a character whose fetch function saves a
\* simple key before anything else: a flow collection start, a quoted
\* scalar, an anchor, an alias, a tag, or a plain scalar that begins with a
\* letter.
SavingStart(s) == ch(s) \in {"[", "{", "'", "\"", "*", "&", "!"} \cup Letters

\* ... whose fetch function removes the simple key before anything else.
RemovingStart(s) == ch(s) \in {"]", "}", ","}

MustStay(s) == Last(s.simple_keys).possible /\ Last(s.simple_keys).required

\* r is what remove_simple_key makes of s.
Removed(s, r) ==
    IF MustStay(s)
    THEN r.fail = "simple key expected" /\ r.simple_keys = s.simple_keys
    ELSE r = [s EXCEPT !.simple_keys[Len(s.simple_keys)].possible = FALSE]

\* r is what save_simple_key makes of s.
Saved(s, r) ==
    IF ~s.simple_key_allowed THEN r = s
    ELSE IF MustStay(s)
    THEN r.fail = "simple key expected" /\ r.simple_keys = s.simple_keys
    ELSE r = [s EXCEPT !.simple_keys[Len(s.simple_keys)] =
                 [possible |-> TRUE,
                  required |-> s.flow_level > 0 /\ s.indent = s.mark.col,
                  token_number |-> s.tokens_parsed + Len(s.tokens),
                  mark |-> s.mark]]

\* After a plain scalar was fetched where a key is allowed, the last slot
\* is the one saved for it and its token_number is the place of the Scalar
\* in the stream of tokens.
ScalarKeySaved(s3) ==
    (ch(s3) \in Letters /\ s3.simple_key_allowed /\ sc'.error = "") =>
        /\ Last(sc'.simple_keys) =
               [possible |-> TRUE,
                required |-> s3.flow_level > 0 /\ s3.indent = s3.mark.col,
                token_number |-> s3.tokens_parsed + Len(s3.tokens),
                mark |-> s3.mark]
        /\ sc'.tokens[Last(sc'.simple_keys).token_number - sc'.tokens_parsed + 1]
               = Last(sc'.tokens)
        /\ Last(sc'.tokens).type = "Scalar"
        /\ Last(sc'.tokens).mark = s3.mark

\* C25: save_simple_key records a slot only when simple_key_allowed is
\* true, with token_number = tokens_parsed + queue length and required
\* exactly when flow_level > 0 and indent = the current column; removing a
\* slot that is possible and required fails with a ScanError, and any other
\* removal just sets possible to false.
C25_SimpleKeySavedAndRemoved ==
    [][(pc = "fetch" /\ FetchesToken(sc)) =>
          With(token_start(sc), LAMBDA s3 :
              /\ SavingStart(s3) => Saved(s3, save_simple_key(s3))
              /\ RemovingStart(s3) => Removed(s3, remove_simple_key(s3))
              /\ is_z(ch(s3)) =>
                     Removed(unroll_indent(to_line_start(s3), -1),
                             remove_simple_key(unroll_indent(to_line_start(s3), -1)))
              /\ ScalarKeySaved(s3))]_vars

\* A key is saved in a flow collection at the column of the enclosing block:
\* the slot recorded is required.
C25_Witness ==
    /\ pc = "fetch"
    /\ FetchesToken(sc)
    /\ With(token_start(sc), LAMBDA s3 :
           /\ SavingStart(s3)
           /\ s3.simple_key_allowed
           /\ s3.flow_level > 0
           /\ s3.indent = s3.mark.col
           /\ Last(save_simple_key(s3).simple_keys).required
           /\ Last(save_simple_key(s3).simple_keys).token_number
                  = s3.tokens_parsed + Len(s3.tokens))

\* ------------------------------------------------------------------------
\* C26: one simple-key slot per flow level
\* ------------------------------------------------------------------------
\* C26 as stated: once StreamStart is produced, simple_keys holds exactly
\* flow_level + 1 slots in every state.
C26_Original ==
    sc.stream_start_produced => Len(sc.simple_keys) = sc.flow_level + 1

\* C26: once StreamStart is produced, simple_keys holds exactly
\* flow_level + 1 slots, so that its last slot is defined, in every state
\* but the one the error `recursion limit exceeded` leaves behind, where the
\* slot of the refused level is pushed and simple_keys holds flow_level + 2.
C26_SlotPerFlowLevel ==
    sc.stream_start_produced =>
        /\ Len(sc.simple_keys) >= 1
        /\ Len(sc.simple_keys) =
               IF sc.error = "recursion limit exceeded"
               THEN sc.flow_level + 2
               ELSE sc.flow_level + 1

\* A collection was closed inside another and a third opened in its place.
C26_Witness ==
    /\ sc.stream_start_produced
    /\ sc.error = ""
    /\ sc.flow_level = 2
    /\ Len(sc.simple_keys) = 3
    /\ \E i \in 1..Len(sc.tokens) : sc.tokens[i].type = "FlowSequenceEnd"
    /\ Last(sc.tokens).type = "FlowMappingStart"

\* ------------------------------------------------------------------------
\* C29: the limit of flow_level
\* ------------------------------------------------------------------------
\* C29: flow_level never exceeds 255; a '[' or '{' fetched while flow_level
\* is 255 fails with `recursion limit exceeded`, leaves flow_level at 255
\* and queues no token.
C29_FlowLevelLimited ==
    [][/\ sc'.flow_level <= MaxFlowLevel
       /\ (pc = "fetch" /\ FetchesToken(sc)) =>
              With(token_start(sc), LAMBDA s3 :
                  (s3.flow_level = MaxFlowLevel /\ ch(s3) \in {"[", "{"}) =>
                      /\ sc'.error = "recursion limit exceeded"
                      /\ sc'.flow_level = MaxFlowLevel
                      /\ sc'.tokens = s3.tokens
                      /\ ret' = "None")]_vars

\* The 256th flow collection opened inside the others was refused.
C29_Witness ==
    /\ sc.error = "recursion limit exceeded"
    /\ sc.flow_level = MaxFlowLevel
    /\ sc.tokens_parsed + Len(sc.tokens) = MaxFlowLevel + 1
    /\ Last(sc.tokens).type \in {"FlowSequenceStart", "FlowMappingStart"}
    /\ sc.mark.index = MaxFlowLevel

\* ------------------------------------------------------------------------
\* C27: roll_indent and unroll_indent
\* ------------------------------------------------------------------------
IsEntry(s) == buf(s, 0) = "-" /\ is_blankz(buf(s, 1))

IsKey(s) == buf(s, 0) = "?" /\ is_blankz(buf(s, 1))

TypesOf(toks) == [i \in 1..Len(toks) |-> toks[i].type]

\* The fetch function that began at s3 has returned Ok: besides its `own`
\* tokens it has opened a block at col, with `opener`, if s3 is in block
\* context with an indent less than col, and has left indent, indents and
\* the block openers of the queue alone if not.
Rolls(s3, col, opener, own) ==
    sc'.error = "" =>
        IF s3.flow_level = 0 /\ col > s3.indent
        THEN /\ sc'.indent = col
             /\ sc'.indents = Append(s3.indents, s3.indent)
             /\ Len(sc'.tokens) = Len(s3.tokens) + own + 1
             /\ CountOf(sc'.tokens, Len(sc'.tokens), {opener})
                    = CountOf(s3.tokens, Len(s3.tokens), {opener}) + 1
        ELSE /\ sc'.indent = s3.indent
             /\ sc'.indents = s3.indents
             /\ Len(sc'.tokens) = Len(s3.tokens) + own
             /\ CountOf(sc'.tokens, Len(sc'.tokens), BlockOpeners)
                    = CountOf(s3.tokens, Len(s3.tokens), BlockOpeners)

\* The number of indents unroll_indent has popped between s and s3.
Popped(s, s3) == Len(s.indents) - Len(s3.indents)

\* fetch_next_token has come from s to the token start s3: in flow context
\* nothing is popped and no BlockEnd queued; in block context a BlockEnd is
\* queued for every indent greater than the column, and that indent popped.
Unrolls(s, s3) ==
    IF s3.flow_level > 0
    THEN s3.indent = s.indent /\ s3.indents = s.indents /\ s3.tokens = s.tokens
    ELSE /\ Popped(s, s3) >= 0
         /\ s3.indents = SubSeq(s.indents, 1, Len(s3.indents))
         /\ s3.indent = IF Popped(s, s3) = 0 THEN s.indent
                         ELSE s.indents[Len(s3.indents) + 1]
         /\ s3.indent <= s3.mark.col
         /\ Popped(s, s3) > 0 => s.indent > s3.mark.col
         /\ \A j \in (Len(s3.indents) + 2)..Len(s.indents) : s.indents[j] > s3.mark.col
         /\ TypesOf(s3.tokens)
                = TypesOf(s.tokens) \o [i \in 1..Popped(s, s3) |-> "BlockEnd"]

\* C27: roll_indent changes indent and indents and queues a block opener
\* only when flow_level = 0 and col > indent, and leaves indent, indents
\* and the queue alone when col <= indent or in flow context; unroll_indent
\* queues no BlockEnd and pops nothing while flow_level > 0, before a token
\* and at the stream end alike.
C27_IndentRolledInBlockOnly ==
    [][(pc = "fetch" /\ FetchesToken(sc)) =>
          With(token_start(sc), LAMBDA s3 :
              /\ Unrolls(sc, s3)
              /\ (~is_z(ch(s3)) /\ IsEntry(s3)) =>
                     Rolls(s3, s3.mark.col, "BlockSequenceStart", 1)
              /\ (~is_z(ch(s3)) /\ IsKey(s3)) =>
                     Rolls(s3, s3.mark.col, "BlockMappingStart", 1)
              /\ (~is_z(ch(s3)) /\ IsValueIndicator(s3)) =>
                     IF Last(s3.simple_keys).possible
                     THEN Rolls(s3, Last(s3.simple_keys).mark.col, "BlockMappingStart", 2)
                     ELSE Rolls(s3, s3.mark.col, "BlockMappingStart", 1)
              /\ (is_z(ch(s3)) /\ s3.flow_level > 0 /\ sc'.error = "") =>
                     /\ sc'.indent = s3.indent
                     /\ sc'.indents = s3.indents
                     /\ TypesOf(sc'.tokens) = Append(TypesOf(s3.tokens), "StreamEnd"))]_vars

\* A '-' entry at the column of its parent mapping key: no block is opened.
C27_Witness ==
    /\ pc = "fetch"
    /\ FetchesToken(sc)
    /\ With(token_start(sc), LAMBDA s3 :
           /\ IsEntry(s3)
           /\ s3.flow_level = 0
           /\ s3.indent = s3.mark.col
           /\ \E i \in 1..Len(out) : out[i].type = "BlockMappingStart"
           /\ ~Failed(fetch_block_entry(s3))
           /\ fetch_block_entry(s3).indents = s3.indents
           /\ TypesOf(fetch_block_entry(s3).tokens) = Append(TypesOf(s3.tokens), "BlockEntry"))

\* ------------------------------------------------------------------------
\* C28: entries, keys and values where they are not allowed
\* ------------------------------------------------------------------------
NotAllowed(s) == s.flow_level = 0 /\ ~s.simple_key_allowed

\* The fetch function that began at s3 has returned Err(info): next
\* returns None, and the queue, indent and indents are those of s3.
Refused(s3, info) ==
    /\ sc'.error = info
    /\ ret' = "None"
    /\ sc'.tokens = s3.tokens
    /\ sc'.indent = s3.indent
    /\ sc'.indents = s3.indents

\* C28: in block context with simple_key_allowed false, the fetch of a '-'
\* entry, of a '?' key and of a ':' with no pending simple key fails with
\* "... not allowed in this context", queues no token and leaves indent
\* and indents as they were; a '-' followed by a blank inside a flow
\* collection always fails.
C28_NotAllowedIsRefused ==
    [][(pc = "fetch" /\ FetchesToken(sc)) =>
          With(token_start(sc), LAMBDA s3 :
              ~is_z(ch(s3)) =>
                  /\ (IsEntry(s3) /\ NotAllowed(s3)) =>
                         Refused(s3, "block sequence entries are not allowed in this context")
                  /\ (IsKey(s3) /\ NotAllowed(s3)) =>
                         Refused(s3, "mapping keys are not allowed in this context")
                  /\ (IsValueIndicator(s3) /\ NotAllowed(s3)
                         /\ ~Last(s3.simple_keys).possible) =>
                         Refused(s3, "mapping values are not allowed in this context")
                  /\ (IsEntry(s3) /\ s3.flow_level > 0) =>
                         Refused(s3, "\"-\" is only valid inside a block"))]_vars

\* A '-' entry behind the value indicator of a block mapping, at a column
\* greater than the indent, was refused.
C28_Witness ==
    /\ sc.error = "block sequence entries are not allowed in this context"
    /\ ret = "None"
    /\ sc.flow_level = 0
    /\ ~sc.simple_key_allowed
    /\ sc.mark.col > sc.indent
    /\ Len(out) > 0
    /\ Last(out).type = "Value"

\* ------------------------------------------------------------------------
\* C30: ':' with no blank behind it
\* ------------------------------------------------------------------------
\* The turn from the token start s3 has queued a Value token.
ValueFetched(s3) ==
    CountOf(sc'.tokens, Len(sc'.tokens), {"Value"})
        > CountOf(s3.tokens, Len(s3.tokens), {"Value"})

\* The token start s3 is the place behind the closing quote of the quoted
\* scalar scanned last.
AfterQuoted(s3) ==
    /\ s3.mark.index = s3.adjacent_value_allowed_at
    /\ s3.mark.index > 0
    /\ src[s3.mark.index] \in {"\"", "'"}
    /\ With(IF s3.tokens = << >> THEN Last(out) ELSE Last(s3.tokens), LAMBDA tok :
           /\ tok.type = "Scalar"
           /\ tok.style \in {"SingleQuoted", "DoubleQuoted"})

\* C30: a ':' with no blank, line break or end of input behind it yields a
\* Value token only in flow context, and there only when the next
\* character is a flow indicator or the ':' is at the index behind the
\* closing quote of the quoted scalar just scanned; in block context it
\* yields no Value token.
C30_AdjacentValueInFlowOnly ==
    [][(pc = "fetch" /\ FetchesToken(sc)) =>
          With(token_start(sc), LAMBDA s3 :
              (buf(s3, 0) = ":" /\ ~is_blankz(buf(s3, 1)) /\ ValueFetched(s3)) =>
                  /\ s3.flow_level > 0
                  /\ is_flow(buf(s3, 1)) \/ AfterQuoted(s3))]_vars

\* The ':' behind a quoted key of a flow collection, with a letter behind
\* it, was taken as the value indicator.
C30_Witness ==
    /\ sc.flow_level > 0
    /\ Len(sc.tokens) >= 3
    /\ Last(sc.tokens).type = "Value"
    /\ sc.tokens[Len(sc.tokens) - 1].style = "DoubleQuoted"
    /\ sc.tokens[Len(sc.tokens) - 2].type = "Key"
    /\ sc.mark.index = sc.adjacent_value_allowed_at + 1
    /\ ~Failed(lookahead(sc, 1))
    /\ buf(lookahead(sc, 1), 0) = "a"

\* ------------------------------------------------------------------------
\* C31: line folding of plain scalars
\* ------------------------------------------------------------------------
RECURSIVE Folded(_, _, _, _, _)
\* The text r from its i-th character on, behind the folded text acc, k line
\* breaks and, when k = 0, the blanks w: blanks between two characters of a
\* line are kept, one line break becomes a space, k > 1 line breaks become
\* k - 1 newlines, the blanks next to line breaks and whatever blanks and
\* breaks end the text are dropped.
Folded(r, i, k, w, acc) ==
    IF i > Len(r) THEN acc
    ELSE IF r[i] = LF THEN Folded(r, i + 1, k + 1, << >>, acc)
    ELSE IF r[i] \in {SP, TAB}
         THEN Folded(r, i + 1, k, IF k = 0 THEN Append(w, r[i]) ELSE w, acc)
    ELSE Folded(r, i + 1, 0, << >>,
                acc \o (IF k = 0 THEN w
                        ELSE IF k = 1 THEN <<SP>>
                        ELSE [j \in 1..(k - 1) |-> LF])
                    \o <<r[i]>>)

\* The column of the j-th character of the input.
ColumnOf(j) ==
    IF \E i \in 1..(j - 1) : src[i] = LF
    THEN j - 1 - (CHOOSE i \in 1..(j - 1) :
                     src[i] = LF /\ \A h \in (i + 1)..(j - 1) : src[h] # LF)
    ELSE j - 1

\* The turn from the token start s3 has queued a plain scalar.
PlainQueued(s3) ==
    /\ sc'.error = ""
    /\ Len(sc'.tokens) = Len(s3.tokens) + 1
    /\ Last(sc'.tokens).type = "Scalar"
    /\ Last(sc'.tokens).style = "Plain"
    /\ Last(sc'.tokens).mark = s3.mark

\* C31: the text of a plain scalar is the text it was scanned from with
\* every single line break between two content lines replaced by a space
\* and every run of k > 1 line breaks by k - 1 newlines, the blanks next
\* to the breaks dropped; in block context no character of a line that
\* begins below column indent + 1 is taken into the scalar.
C31_PlainScalarFolded ==
    [][(pc = "fetch" /\ FetchesToken(sc)) =>
          With(token_start(sc), LAMBDA s3 :
              PlainQueued(s3) =>
                  /\ Last(sc'.tokens).text
                        = Folded(SubSeq(src, s3.mark.index + 1, sc'.mark.index),
                                 1, 0, << >>, << >>)
                  /\ s3.flow_level = 0 =>
                        \A j \in (s3.mark.index + 2)..sc'.mark.index :
                            (~is_blankz(src[j])
                               /\ \E i \in (s3.mark.index + 1)..(j - 1) : src[i] = LF)
                            => ColumnOf(j) >= s3.indent + 1)]_vars

\* The value of a block mapping at column 0, continued behind an empty
\* line on a line indented by one: two line breaks became one newline.
C31_Witness ==
    /\ sc.flow_level = 0
    /\ sc.indent = 0
    /\ Len(sc.tokens) > 0
    /\ Last(sc.tokens).style = "Plain"
    /\ Last(sc.tokens).text = <<"a", LF, "a">>
    /\ src = <<"a", ":", SP, "a", LF, LF, SP, "a">>

\* ------------------------------------------------------------------------
\* C32: quoted scalars that are not closed
\* ------------------------------------------------------------------------
\* The j-th character of the input, NUL behind its end.
CharAt(j) == IF j <= Len(src) THEN src[j] ELSE NUL

\* A document indicator stands at the j-th character of the input.
IndicatorStandsAt(j) ==
    /\ ColumnOf(j) = 0
    /\ \/ (CharAt(j) = "-" /\ CharAt(j + 1) = "-" /\ CharAt(j + 2) = "-")
       \/ (CharAt(j) = "." /\ CharAt(j + 1) = "." /\ CharAt(j + 2) = ".")
    /\ is_blankz(CharAt(j + 3))

\* The turn from the token start s3 has queued a quoted scalar.
QuotedQueued(s3) ==
    /\ sc'.error = ""
    /\ Len(sc'.tokens) = Len(s3.tokens) + 1
    /\ Last(sc'.tokens).type = "Scalar"
    /\ Last(sc'.tokens).style \in {"SingleQuoted", "DoubleQuoted"}

\* The turn from the token start s3 has failed and queued nothing.
QuotedRefused(s3, infos) ==
    /\ sc'.error \in infos
    /\ ret' = "None"
    /\ sc'.tokens = s3.tokens

\* C32: a quoted scalar is queued only when its closing quote was found,
\* with no document indicator at column 0 before it; when the input ends
\* or a document indicator stands at column 0 before any closing quote,
\* the fetch fails and queues no token.
C32_UnterminatedQuotedFails ==
    [][(pc = "fetch" /\ FetchesToken(sc)) =>
          With(token_start(sc), LAMBDA s3 :
              ch(s3) \in {"\"", "'"} =>
                  /\ QuotedQueued(s3) =>
                        /\ sc'.mark.index >= s3.mark.index + 2
                        /\ CharAt(sc'.mark.index) = ch(s3)
                        /\ \A j \in (s3.mark.index + 2)..sc'.mark.index :
                               ~IndicatorStandsAt(j)
                  /\ (\A j \in (s3.mark.index + 2)..Len(src) : src[j] # ch(s3)) =>
                        QuotedRefused(s3,
                            {"while scanning a quoted scalar, found unexpected end of stream",
                             "while scanning a quoted scalar, found unexpected document indicator"})
                  /\ (\E j \in (s3.mark.index + 2)..Len(src) :
                         /\ IndicatorStandsAt(j)
                         /\ \A i \in (s3.mark.index + 2)..j : src[i] # ch(s3)) =>
                        QuotedRefused(s3,
                            {"while scanning a quoted scalar, found unexpected document indicator"}))]_vars

\* A double-quoted scalar was cut by a document indicator at column 0
\* although a closing quote follows.
C32_Witness ==
    /\ sc.error = "while scanning a quoted scalar, found unexpected document indicator"
    /\ ret = "None"
    /\ sc.tokens = << >>
    /\ src[1] = "\""
    /\ \E j \in 1..Len(src) : IndicatorStandsAt(j) /\ \E i \in (j + 3)..Len(src) : src[i] = "\""

\* ------------------------------------------------------------------------
\* C33: the \\x, \\u and \\U escapes of a double-quoted scalar
\* ------------------------------------------------------------------------
LowerNibbles ==
    <<"0", "1", "2", "3", "4", "5", "6", "7", "8", "9", "a", "b", "c", "d", "e", "f">>

UpperNibbles ==
    <<"0", "1", "2", "3", "4", "5", "6", "7", "8", "9", "A", "B", "C", "D", "E", "F">>

IsNibble(c) == \E n \in 1..16 : c = LowerNibbles[n] \/ c = UpperNibbles[n]

Nibble(c) == (CHOOSE n \in 1..16 : c = LowerNibbles[n] \/ c = UpperNibbles[n]) - 1

\* How many hex digits the escape letter e takes.
DigitsOf(e) == IF e = "x" THEN 2 ELSE IF e = "u" THEN 4 ELSE 8

RECURSIVE NumberAt(_, _)
\* The number written by the n hex digits that end at the j-th character
\* of the input, as an integer of any size.
NumberAt(j, n) ==
    IF n = 0 THEN 0 ELSE NumberAt(j - 1, n - 1) * 16 + Nibble(CharAt(j))

\* The number written by the n hex digits behind the at-th character, in
\* two parts of at most four digits: the number is high * 65536 + low.
HighPart(at, n) == IF n = 8 THEN NumberAt(at + 4, 4) ELSE 0

LowPart(at, n) == NumberAt(at + n, IF n = 8 THEN 4 ELSE n)

\* v is a Unicode scalar value.
IsUnicodeScalar(v) == (0 <= v /\ v < 55296) \/ (57344 <= v /\ v <= 1114111)

\* The n hex digits behind the at-th character write a Unicode scalar value.
WritesScalar(at, n) ==
    /\ HighPart(at, n) <= 16
    /\ IsUnicodeScalar(HighPart(at, n) * 65536 + LowPart(at, n))

\* C33: in a double-quoted scalar \\x, \\u and \\U followed by 2, 4 and 8 hex
\* digits append the character whose code point the digits write, with no
\* bit of it lost; a character that is no hex digit among them, and a
\* number that is a surrogate or above 0x10FFFF, make the fetch fail
\* with no Scalar queued.
C33_HexEscapes ==
    [][(pc = "fetch" /\ FetchesToken(sc)) =>
          With(token_start(sc), LAMBDA s3 :
              (/\ ch(s3) = "\""
               /\ CharAt(s3.mark.index + 2) = "\\"
               /\ CharAt(s3.mark.index + 3) \in {"x", "u", "U"}) =>
                  With(s3.mark.index + 3, LAMBDA at :
                  With(DigitsOf(CharAt(at)), LAMBDA n :
                      IF \E j \in (at + 1)..(at + n) : ~IsNibble(CharAt(j))
                      THEN QuotedRefused(s3,
                               {"while parsing a quoted scalar, did not find expected hexadecimal number"})
                      ELSE IF ~WritesScalar(at, n)
                      THEN QuotedRefused(s3,
                               {"while parsing a quoted scalar, found invalid Unicode character escape code"})
                      ELSE /\ QuotedQueued(s3)
                           /\ Last(sc'.tokens).text
                                 = <<CharFromU32(HighPart(at, n) * 65536 + LowPart(at, n))>>
                                   \o SubSeq(src, at + n + 1, Len(src) - 1))))]_vars

\* \\U0010FFFF was scanned to the character with the greatest code point.
C33_Witness ==
    /\ src = <<"\"", "\\", "U", "0", "0", "1", "0", "F", "F", "F", "F", "\"">>
    /\ Len(sc.tokens) > 0
    /\ Last(sc.tokens).style = "DoubleQuoted"
    /\ Last(sc.tokens).text = <<"U+1114111">>

\* ------------------------------------------------------------------------
\* C34: the indent stack
\* ------------------------------------------------------------------------
\* The tokens produced so far: those delivered and those in the queue.
Produced == out \o sc.tokens

\* C34: indent >= -1; the entries of indents increase strictly from
\* bottom to top and each is below indent, so that indents is empty
\* exactly when indent = -1; and indents has as many entries as block
\* openers were produced so far less the BlockEnd tokens produced so far.
C34_IndentStack ==
    /\ sc.indent >= -1
    /\ \A i, j \in 1..Len(sc.indents) : i < j => sc.indents[i] < sc.indents[j]
    /\ \A i \in 1..Len(sc.indents) : sc.indents[i] < sc.indent
    /\ (sc.indents = << >>) <=> (sc.indent = -1)
    /\ Len(sc.indents) = BlockDepth(Produced, Len(Produced))

\* A block sequence was closed by an entry at a lower column and a second
\* one opened by that entry: two openers, one BlockEnd, one indent pushed.
C34_Witness ==
    /\ sc.indents = <<-1>>
    /\ sc.indent = 0
    /\ CountOf(Produced, Len(Produced), {"BlockSequenceStart"}) = 2
    /\ CountOf(Produced, Len(Produced), {"BlockEnd"}) = 1
    /\ Last(Produced).type = "BlockEntry"

\* ------------------------------------------------------------------------
\* C35: the positions handed to insert_token
\* ------------------------------------------------------------------------
\* Every possible simple key of s has a place in the queue of s, or is the
\* next token to be queued.
KeysInQueue(s) ==
    \A i \in 1..Len(s.simple_keys) :
        s.simple_keys[i].possible =>
            /\ s.simple_keys[i].token_number >= s.tokens_parsed
            /\ s.simple_keys[i].token_number - s.tokens_parsed <= Len(s.tokens)

\* C35: whenever a simple-key slot is possible, between two steps and at
\* the start of every token, token_number >= tokens_parsed and
\* token_number - tokens_parsed <= the queue's length; no insert_token of
\* fetch_value or roll_indent fails its assertion.
C35_InsertPositionsValid ==
    /\ pc # "panic"
    /\ KeysInQueue(sc)
    /\ (pc = "fetch" /\ FetchesToken(sc)) => KeysInQueue(token_start(sc))

\* A ':' is about to promote a simple key that stands behind the first
\* token of the queue, after tokens were delivered: the Key is inserted at
\* position 1 and the queue keeps its other tokens.
C35_Witness ==
    /\ pc = "fetch"
    /\ FetchesToken(sc)
    /\ With(token_start(sc), LAMBDA s3 :
           /\ IsValueIndicator(s3)
           /\ Last(s3.simple_keys).possible
           /\ s3.tokens_parsed >= 1
           /\ Last(s3.simple_keys).token_number - s3.tokens_parsed = 1
           /\ ~Failed(fetch_value(s3))
           /\ fetch_value(s3).tokens[2].type = "Key"
           /\ fetch_value(s3).tokens[1] = s3.tokens[1])

\* ------------------------------------------------------------------------
\* C36: StreamEnd is the last token queued
\* ------------------------------------------------------------------------
StreamEnds == CountOf(Produced, Len(Produced), {"StreamEnd"})

NoKeyPossible(s) == \A i \in 1..Len(s.simple_keys) : ~s.simple_keys[i].possible

\* C36: at most one StreamEnd is ever queued and no token is queued behind
\* it: once it is queued, fetch_more_tokens asks for no further token (when
\* it looks, after the stale keys were aged out, no simple-key slot is
\* possible), and when StreamEnd has been delivered the queue is empty.
C36_StreamEndIsLast ==
    /\ StreamEnds <= 1
    /\ StreamEnds = 1 =>
          /\ Last(Produced).type = "StreamEnd"
          /\ pc = "fetch" =>
                /\ ~need_more_tokens(sc).need_more
                /\ Failed(need_more_tokens(sc).s) \/ NoKeyPossible(need_more_tokens(sc).s)
    /\ sc.stream_end_produced =>
          /\ sc.tokens = << >>
          /\ Last(out).type = "StreamEnd"

\* StreamEnd was delivered with a flow collection still open, whose '['
\* had been a possible simple key until the end of the input.
C36_Witness ==
    /\ sc.stream_end_produced
    /\ sc.flow_level > 0
    /\ sc.tokens = << >>
    /\ Last(out).type = "StreamEnd"
    /\ sc.simple_keys[1].token_number = 1
    /\ ~sc.simple_keys[1].possible

RECURSIVE scan_error(_)
\* The error that ends the calls of next, "" when the stream ends.
scan_error(s) ==
    IF s.stream_end_produced
    THEN ""
    ELSE With(fetch_more_tokens(s), LAMBDA s1 :
             IF Failed(s1) THEN s1.fail ELSE scan_error(pop_token(s1)))

\* The tokens that are no Comment.
WithoutComments(toks) == SelectSeq(toks, LAMBDA t : t.type # "Comment")

\* C37: once all tokens of a text have been delivered with comment tokens,
\* the tokens other than Comment are, in kind and scalar text, those
\* delivered for the same text without comment tokens, and the error is the
\* same.
C37_CommentsKeepStructure ==
    (ret = "None" /\ sc.with_comments) =>
        /\ KindsAndScalars(WithoutComments(out))
               = KindsAndScalars(scan_all(ScannerNew(src, FALSE), << >>))
        /\ sc.error = scan_error(ScannerNew(src, FALSE))

\* Token i of toks does not point later in the input than token j.
InOrder(toks, i, j) == toks[i].mark.index <= toks[j].mark.index

\* C38, as stated (refuted): the markers of the tokens delivered so far do
\* not decrease in index in the order of delivery.
C38_MarkersNonDecreasing ==
    \A i, j \in 1..Len(out) : i < j => InOrder(out, i, j)

IsMappingStart(t) == t.type = "BlockMappingStart"

\* C38, amended: the markers of the delivered tokens other than
\* BlockMappingStart do not decrease in index in the order of delivery,
\* the Key inserted for a simple key included; a BlockMappingStart points
\* no earlier than the tokens before it, and one that points later than
\* the token after it is followed by the Key of a simple key and points at
\* the ':' of that key.
C38_MarkersNonDecreasingButMappingStart ==
    /\ \A i, j \in 1..Len(out) :
          (i < j /\ ~IsMappingStart(out[j])) =>
              (IsMappingStart(out[i]) \/ InOrder(out, i, j))
    /\ \A i, j \in 1..Len(out) :
          (i < j /\ IsMappingStart(out[j])) => InOrder(out, i, j)
    /\ \A i \in 1..(Len(out) - 1) :
          (IsMappingStart(out[i]) /\ ~InOrder(out, i, i + 1)) =>
              /\ out[i + 1].type = "Key"
              /\ CharAt(out[i].mark.index + 1) = ":"

\* A simple key and its ':' were delivered: the BlockMappingStart points at
\* the ':', like the Value, and the Key after it at the start of the key.
C38_Witness ==
    \E i \in 1..(Len(out) - 3) :
        /\ IsMappingStart(out[i])
        /\ out[i + 1].type = "Key"
        /\ out[i + 2].type = "Scalar"
        /\ out[i + 3].type = "Value"
        /\ out[i + 1].mark = out[i + 2].mark
        /\ out[i].mark = out[i + 3].mark
        /\ ~InOrder(out, i, i + 1)

\* The scanner with the whole rest of the input in its lookahead buffer.
Whole(s) == [s EXCEPT !.buffer = @ \o s.rdr, !.rdr = << >>]

\* The scanner as Iterator::next leaves it after a turn that ended in s.
Left(s) == IF Failed(s) THEN [s EXCEPT !.error = s.fail, !.fail = ""] ELSE s

\* The buffer holds the characters of the input that follow the mark, and
\* '\0' past the end of the input.
BufferFollowsMark(s) ==
    \A i \in 1..Len(s.buffer) : s.buffer[i] = CharAt(s.mark.index + i)

\* C39: no turn of fetch_more_tokens panics on the buffer: skip never finds
\* it empty, and no read goes past the characters lookahead has put there,
\* so the turn goes as it would with the whole rest of the input in the
\* buffer beforehand; the buffer holds the input from the mark on and '\0'
\* past its end.
C39_BufferReadsWithinLookahead ==
    [][pc = "fetch" =>
          /\ pc' # "panic"
          /\ ~IsPanic(sc')
          /\ BufferFollowsMark(sc')
          /\ With(fetch_more_step(Whole(sc)), LAMBDA r :
                 /\ ~IsPanic(r.s)
                 /\ Whole(Left(r.s)) = Whole(sc'))]_vars

\* The input ended inside a \x escape: lookahead filled the buffer with
\* '\0' past the digit and the scan failed on it.
C39_Witness ==
    /\ src = <<"\"", "a", "\\", "x", "4">>
    /\ sc.error = "while parsing a quoted scalar, did not find expected hexadecimal number"
    /\ sc.buffer = <<"4", NUL>>
    /\ sc.rdr = << >>
    /\ ret = "None"

\* `%HH` stands at the j-th character of the input.
IsOctetAt(j) ==
    CharAt(j) = "%" /\ IsNibble(CharAt(j + 1)) /\ IsNibble(CharAt(j + 2))

OctetAt(j) == Nibble(CharAt(j + 1)) * 16 + Nibble(CharAt(j + 2))

\* The bits of the code point that a leading octet of a sequence of w
\* octets carries.
LeadingBits(octet, w) ==
    IF w = 1 THEN octet
    ELSE IF w = 2 THEN octet - 192
    ELSE IF w = 3 THEN octet - 224
    ELSE octet - 240

IsContinuation(octet) == 128 <= octet /\ octet < 192

\* n continuation octets stand from the j-th character on.
ContinuationsAt(j, n) ==
    \A k \in 0..(n - 1) : IsOctetAt(j + 3 * k) /\ IsContinuation(OctetAt(j + 3 * k))

RECURSIVE Utf8Value(_, _, _)
\* The code point that the n continuation octets from the j-th character on
\* make of the bits v: each brings six bits.
Utf8Value(j, n, v) ==
    IF n = 0 THEN v ELSE Utf8Value(j + 3, n - 1, v * 64 + (OctetAt(j) - 128))

RECURSIVE Utf8Decoded(_, _)
\* The URI that stands from the j-th character to the '>', each escaped
\* UTF-8 sequence read as the code point its octets encode; ok is FALSE
\* when an octet is not two hex digits, a leading octet leads no sequence
\* or a following octet is no continuation.
Utf8Decoded(j, str) ==
    IF CharAt(j) # "%"
    THEN IF CharAt(j) = ">"
         THEN [ok |-> TRUE, str |-> str]
         ELSE Utf8Decoded(j + 1, Append(str, CharAt(j)))
    ELSE IF ~IsOctetAt(j) \/ LeadingWidth(OctetAt(j)) = 0
    THEN [ok |-> FALSE, str |-> str]
    ELSE IF ~ContinuationsAt(j + 3, LeadingWidth(OctetAt(j)) - 1)
    THEN [ok |-> FALSE, str |-> str]
    ELSE Utf8Decoded(j + 3 * LeadingWidth(OctetAt(j)),
             Append(str, CharFromU32(
                 Utf8Value(j + 3, LeadingWidth(OctetAt(j)) - 1,
                           LeadingBits(OctetAt(j), LeadingWidth(OctetAt(j)))))))

Tags == SelectSeq(out, LAMBDA t : t.type = "Tag")

\* C40 (refuted): when the scan of a verbatim tag `!<...>` has ended, the
\* Tag delivered holds the URI with every escaped UTF-8 sequence read as
\* the code point its octets encode, and no Tag but an error is left when
\* an octet is not two hex digits, a leading octet leads no sequence or a
\* following octet is no continuation.
C40_UriEscapesDecodeUtf8 ==
    (ret = "None" /\ SubSeq(src, 1, 2) = <<"!", "<">>) =>
        With(Utf8Decoded(3, << >>), LAMBDA e :
            IF e.ok
            THEN /\ sc.error = ""
                 /\ Len(Tags) = 1
                 /\ Tags[1].text = e.str
            ELSE /\ sc.error # ""
                 /\ Tags = << >>)

====
